---- MODULE Spec2Model ----
(***************************************************************************)
(* Model of the SEFAZ-CE DAE automation: the batch orchestrator            *)
(* AutomacaoConsultaDAE.executar_fluxo_por_ie (automacao_sefaz_ce.py) and  *)
(* the identifier helpers of excel_filiais.py.                             *)
(*                                                                         *)
(* Python strings are modelled as sequences of one-character strings, so   *)
(* that split/strip/slice/zfill are computed character by character.       *)
(***************************************************************************)
EXTENDS Integers, Sequences, FiniteSets, TLC

VARIABLES
    lista_dados,    \* argument of executar_fluxo_por_ie (sequence of items)
    pc,             \* position of the coroutine executar_fluxo_por_ie
    indice,         \* 1-based position of the loop over lista_dados
    ies_sucesso,    \* ledger: sequence of identifiers
    ies_erro,       \* ledger: sequence of <<identifier, reason>>
    e,              \* message of the exception bound by the step handler
    excecao,        \* exception propagating out of the try block
    retorno,        \* value returned to the caller
    log,            \* page actions performed on the browser session, in order
    encerramentos,  \* number of invocations of _encerrar_browser
    iniciados,      \* session resources started by _iniciar_browser
    fechados,       \* session resources closed by _encerrar_browser
    formulario,     \* texts written into the fields of the payment form
    lancamentos,    \* per input position: number of ledger appends made for it
    erro_captcha,   \* an exception was caught inside _resolver_e_preencher_captcha
    temporarios,    \* the temporary captcha image files created so far, in order
    solver,         \* the worker thread running resolver_imagem, and its result
    planilha,       \* excel_filiais: the active sheet, a sequence of rows of cells
    extracao,       \* excel_filiais: outcome of extrair_todos_os_dados
    linhas,         \* excel_filiais: extracted rows given to obter_dados_para_dae
    nome_para_indice, \* excel_filiais: header names, in column order
    periodo,        \* excel_filiais: (mes_ref, ano_ref) given to obter_dados_para_dae
    resultado,      \* excel_filiais: items returned by obter_dados_para_dae
    ambiente,       \* value of the environment variable ANTI_CAPTCHA_API_KEY
    configuracoes,  \* the module configuracoes: import state and its key
    gui             \* gui_app: running flag, buttons, windows, thread, after-queue

vars ==
    <<lista_dados, pc, indice, ies_sucesso, ies_erro, e, excecao, retorno, log,
      encerramentos, iniciados, fechados, formulario, lancamentos, erro_captcha,
      temporarios, solver,
      planilha, extracao, linhas, nome_para_indice, periodo, resultado,
      ambiente, configuracoes, gui>>

varsFluxo ==
    <<lista_dados, pc, indice, ies_sucesso, ies_erro, e, excecao, retorno, log,
      encerramentos, iniciados, fechados, formulario, lancamentos, erro_captcha,
      temporarios, solver>>

varsExcel ==
    <<planilha, extracao, linhas, nome_para_indice, periodo, resultado>>

varsConfig ==
    <<ambiente, configuracoes>>

varsGui ==
    <<gui>>

\* what executar_fluxo_por_ie leaves alone
varsEntrada ==
    <<varsExcel, varsConfig, varsGui>>

(***************************************************************************)
(* Bounds of the model                                                     *)
(***************************************************************************)
MaxItens ==
    2

MaxEspacos ==
    1

FolgaMotivo ==
    2

MaxPrefixoIE ==
    2

FolgaDigitos ==
    2

MaxLinhas ==
    3

MaxJanelas ==
    2

MaxColunas ==
    4

(***************************************************************************)
(* Program constants                                                       *)
(***************************************************************************)
LIMITE_MOTIVO ==
    80

CORTE_MOTIVO ==
    77

DIGITOS_IE_CE ==
    9

DIA_PAGAMENTO ==
    20

ANO_MINIMO ==
    1995

ANO_MAXIMO ==
    2030

NULO ==
    [t |-> "None"]

\* an int, or a float holding a whole number
Num(n) ==
    [t |-> "num", v |-> n]

\* a float with a fractional part, held in thousandths (milesimos)
Dec(milesimos) ==
    [t |-> "dec", v |-> milesimos]

Str(s) ==
    [t |-> "str", s |-> s]

\* a datetime at midnight
Data(ano, mes, dia) ==
    [t |-> "date", ano |-> ano, mes |-> mes, dia |-> dia]

(***************************************************************************)
(* Python string primitives on character sequences                         *)
(***************************************************************************)
Digitos ==
    <<"0", "1", "2", "3", "4", "5", "6", "7", "8", "9">>

EhDigito(c) ==
    \E k \in 1..10 : Digitos[k] = c

EhEspaco(c) ==
    c \in {" ", "\t", "\n", "\r"}

RECURSIVE Repetir(_, _)
Repetir(c, n) ==
    IF n <= 0 THEN <<>> ELSE <<c>> \o Repetir(c, n - 1)

\* s[:n]
Fatia(s, n) ==
    SubSeq(s, 1, IF n < Len(s) THEN n ELSE Len(s))

RECURSIVE StripEsq(_)
StripEsq(s) ==
    IF s # <<>> /\ EhEspaco(Head(s)) THEN StripEsq(Tail(s)) ELSE s

RECURSIVE StripDir(_)
StripDir(s) ==
    IF s # <<>> /\ EhEspaco(s[Len(s)])
    THEN StripDir(SubSeq(s, 1, Len(s) - 1))
    ELSE s

\* str.strip()
Strip(s) ==
    StripDir(StripEsq(s))

\* s.split("\n")[0]
RECURSIVE PrimeiraLinha(_)
PrimeiraLinha(s) ==
    IF s = <<>> \/ Head(s) = "\n"
    THEN <<>>
    ELSE <<Head(s)>> \o PrimeiraLinha(Tail(s))

MAIUSCULAS ==
    <<"A", "B", "C", "D", "E", "F", "G", "H", "I", "J", "K", "L", "M", "N", "O", "P", "Q", "R", "S", "T", "U", "V", "W", "X", "Y", "Z", "Ç", "Ã", "Õ", "Á", "É", "Í", "Ó", "Ú", "Â", "Ê", "Ô", "À">>

MINUSCULAS ==
    <<"a", "b", "c", "d", "e", "f", "g", "h", "i", "j", "k", "l", "m", "n", "o", "p", "q", "r", "s", "t", "u", "v", "w", "x", "y", "z", "ç", "ã", "õ", "á", "é", "í", "ó", "ú", "â", "ê", "ô", "à">>

Minuscula(c) ==
    IF \E k \in 1..Len(MAIUSCULAS) : MAIUSCULAS[k] = c
    THEN MINUSCULAS[CHOOSE k \in 1..Len(MAIUSCULAS) : MAIUSCULAS[k] = c]
    ELSE c

Maiuscula(c) ==
    IF \E k \in 1..Len(MINUSCULAS) : MINUSCULAS[k] = c
    THEN MAIUSCULAS[CHOOSE k \in 1..Len(MINUSCULAS) : MINUSCULAS[k] = c]
    ELSE c

\* str.lower()
Lower(s) ==
    [k \in 1..Len(s) |-> Minuscula(s[k])]

\* str.upper()
Upper(s) ==
    [k \in 1..Len(s) |-> Maiuscula(s[k])]

\* s.startswith(prefixo)
StartsWith(s, prefixo) ==
    Len(s) >= Len(prefixo) /\ SubSeq(s, 1, Len(prefixo)) = prefixo

\* "".join(c for c in s if c.isdigit())
SoDigitos(s) ==
    SelectSeq(s, EhDigito)

\* str.zfill(n) of a string without sign
ZFill(s, n) ==
    Repetir("0", n - Len(s)) \o s

\* str(n) for an integer n
RECURSIVE StrNat(_)
StrNat(n) ==
    IF n < 10 THEN <<Digitos[n + 1]>>
    ELSE StrNat(n \div 10) \o <<Digitos[(n % 10) + 1]>>

StrInt(n) ==
    IF n < 0 THEN <<"-">> \o StrNat(-n) ELSE StrNat(n)

\* f"{n:02d}"
Fmt02d(n) ==
    IF Len(StrInt(n)) < 2 THEN <<"0">> \o StrInt(n) ELSE StrInt(n)

\* 2^k mod m
RECURSIVE PotenciaDe2Mod(_, _)
PotenciaDe2Mod(k, m) ==
    IF k = 0 THEN 1 % m ELSE (2 * PotenciaDe2Mod(k - 1, m)) % m

\* the exponent x of the binade of milesimos/1000: 2^x <= value < 2^(x+1)
RECURSIVE ExpoenteBinario(_, _)
ExpoenteBinario(milesimos, x) ==
    IF x >= 0
    THEN IF milesimos \div 1000 >= 2 * PotenciaDe2Mod(x, 2147483647)
         THEN ExpoenteBinario(milesimos, x + 1) ELSE x
    ELSE IF milesimos * PotenciaDe2Mod(-x, 2147483647) >= 1000
         THEN x ELSE ExpoenteBinario(milesimos, x - 1)

\* the double nearest to the decimal milesimos/1000 (53-bit significand,
\* round to nearest): -1 when it lies below the decimal, 1 above, 0 when the
\* decimal is itself a double
DesvioDoDouble(milesimos) ==
    IF milesimos = 0 THEN 0
    ELSE LET x == IF milesimos >= 1000 THEN ExpoenteBinario(milesimos, 0)
                  ELSE ExpoenteBinario(milesimos, -1)
             resto == ((milesimos % 1000) * PotenciaDe2Mod(52 - x, 1000)) % 1000
         IN  IF resto = 0 THEN 0 ELSE IF resto < 500 THEN -1 ELSE 1

\* round(v * 100) as f"{v:.2f}" computes it from the exact value of the
\* double: half-way decimals go where the double lies, exact ties to even
CentavosArredondados(milesimos) ==
    LET baixo == milesimos \div 10
        r == milesimos % 10
        desvio == DesvioDoDouble(milesimos)
    IN  IF r > 5 \/ (r = 5 /\ desvio > 0) \/ (r = 5 /\ desvio = 0 /\ baixo % 2 = 1)
        THEN baixo + 1
        ELSE baixo

\* f"{v:.2f}" for a number v >= 0 held in thousandths
Fmt2f(milesimos) ==
    LET centavos == CentavosArredondados(milesimos)
    IN  StrNat(centavos \div 100) \o <<".">> \o Fmt02d(centavos % 100)

\* reading a written decimal text back as a number
RECURSIVE ValorDecimal(_)
ValorDecimal(s) ==
    IF s = <<>> THEN 0
    ELSE 10 * ValorDecimal(SubSeq(s, 1, Len(s) - 1))
         + ((CHOOSE k \in 1..10 : Digitos[k] = s[Len(s)]) - 1)

(***************************************************************************)
(* automacao_sefaz_ce.py: literals and pure helpers                        *)
(***************************************************************************)
MOTIVO_PERIODO_AUSENTE ==
    <<"P", "e", "r", "í", "o", "d", "o", " ", "(", "m", "ê", "s", "/", "a", "n", "o", ")", " ", "a", "u", "s", "e", "n", "t", "e", " ", "n", "o", "s", " ", "d", "a", "d", "o", "s", " ", "d", "a", " ", "p", "l", "a", "n", "i", "l", "h", "a">>

MOTIVO_IE_INVALIDA ==
    <<"I", "E", " ", "i", "n", "v", "á", "l", "i", "d", "a", " ", "o", "u", " ", "v", "a", "z", "i", "a">>

MOTIVO_IE_NAO_ENCONTRADA ==
    <<"I", "E", " ", "n", "ã", "o", " ", "e", "n", "c", "o", "n", "t", "r", "a", "d", "a", " ", "n", "o", " ", "s", "i", "t", "e", " ", "a", "o", " ", "c", "l", "i", "c", "a", "r", " ", "e", "m", " ", "A", "v", "a", "n", "ç", "a", "r">>

MOTIVO_PADRAO_RECEITA ==
    <<"F", "a", "l", "h", "a", " ", "a", "o", " ", "s", "e", "l", "e", "c", "i", "o", "n", "a", "r", " ", "r", "e", "c", "e", "i", "t", "a", " ", "o", "u", " ", "P", "r", "e", "e", "n", "c", "h", "e", "r", " ", "D", "A", "E">>

MOTIVO_PADRAO_FORMULARIO ==
    <<"F", "a", "l", "h", "a", " ", "a", "o", " ", "p", "r", "e", "e", "n", "c", "h", "e", "r", " ", "f", "o", "r", "m", "u", "l", "á", "r", "i", "o">>

MOTIVO_FALHA_CAPTCHA ==
    <<"F", "a", "l", "h", "a", " ", "a", "o", " ", "r", "e", "s", "o", "l", "v", "e", "r", " ", "o", "u", " ", "p", "r", "e", "e", "n", "c", "h", "e", "r", " ", "o", " ", "c", "a", "p", "t", "c", "h", "a">>

MOTIVO_PADRAO_CAPTCHA ==
    <<"E", "r", "r", "o", " ", "a", "o", " ", "p", "r", "o", "c", "e", "s", "s", "a", "r", " ", "c", "a", "p", "t", "c", "h", "a">>

IE_VAZIO ==
    <<"(", "v", "a", "z", "i", "o", ")">>

RETICENCIAS ==
    <<".", ".", ".">>

TEXTO_NULL ==
    <<"n", "u", "l", "l">>

\* mutant: zero is not recognised as an invalid amount
ValorTotalInvalidoSemZero(valor) ==
    \/ valor.t = "None"
    \/ /\ valor.t = "str"
       /\ LET s == Lower(Strip(valor.s)) IN s = <<>> \/ s = TEXTO_NULL

\* mutant: only a missing amount is invalid
ValorTotalInvalidoSoNulo(valor) ==
    valor.t = "None"

\* mutant: a missing amount is not invalid
ValorTotalInvalidoSemNulo(valor) ==
    \/ valor.t = "num" /\ valor.v = 0
    \/ /\ valor.t = "str"
       /\ LET s == Lower(Strip(valor.s)) IN s = <<>> \/ s = TEXTO_NULL

\* _valor_total_invalido(valor)
ValorTotalInvalido(valor) ==
    \/ valor.t = "None"
    \/ valor.t = "num" /\ valor.v = 0
    \/ /\ valor.t = "str"
       /\ LET s == Lower(Strip(valor.s)) IN s = <<>> \/ s = TEXTO_NULL

\* mutant: the cut keeps LIMITE_MOTIVO characters before the ellipsis
MotivoDaExcecaoCorteLongo(msg, padrao) ==
    LET motivo == IF msg # <<>> THEN Strip(PrimeiraLinha(msg)) ELSE padrao
    IN  IF Len(motivo) > LIMITE_MOTIVO
        THEN Fatia(motivo, LIMITE_MOTIVO) \o RETICENCIAS
        ELSE motivo

\* motivo = str(e).split("\n")[0].strip() if str(e) else padrao;
\* if len(motivo) > 80: motivo = motivo[:77] + "..."
MotivoDaExcecao(msg, padrao) ==
    LET motivo == IF msg # <<>> THEN Strip(PrimeiraLinha(msg)) ELSE padrao
    IN  IF Len(motivo) > LIMITE_MOTIVO
        THEN Fatia(motivo, CORTE_MOTIVO) \o RETICENCIAS
        ELSE motivo

\* mutant: December does not roll over to January of the next year
DataPagamentoSemVirada(mes_ref, ano_ref) ==
    [mes_pag |-> mes_ref + 1, ano_pag |-> ano_ref]

\* payment date of _preencher_formulario_dae: (mes_pag, ano_pag)
DataPagamento(mes_ref, ano_ref) ==
    IF mes_ref = 12
    THEN [mes_pag |-> 1, ano_pag |-> ano_ref + 1]
    ELSE [mes_pag |-> mes_ref + 1, ano_pag |-> ano_ref]

\* mutant: the identifier is recorded as it is, without the placeholder
IeOuVazioSemMarcador(ie) ==
    ie

\* ie or "(vazio)"
IeOuVazio(ie) ==
    IF ie = <<>> THEN IE_VAZIO ELSE ie

\* mutant: only the month is converted
PeriodoConversivelSoMes(item) ==
    item.mes_ref.t = "num"

\* int(item.get("mes_ref")) / int(item.get("ano_ref")) raise TypeError/ValueError
PeriodoConversivel(item) ==
    item.mes_ref.t = "num" /\ item.ano_ref.t = "num"

\* isinstance(valor, (int, float))
EhNumero(valor) ==
    valor.t \in {"num", "dec"}

\* the value of a number, in thousandths
Milesimos(valor) ==
    IF valor.t = "num" THEN 1000 * valor.v ELSE valor.v

FormularioVazio ==
    [mes_ref |-> <<>>, ano_ref |-> <<>>, dia_pag |-> <<>>, mes_pag |-> <<>>,
     ano_pag |-> <<>>, valor |-> <<>>, captcha |-> <<>>]

\* fields written by _preencher_formulario_dae up to (not including) the
\* principal amount
FormularioComPeriodo(f, mes_ref, ano_ref) ==
    [f EXCEPT !.mes_ref = Fmt02d(mes_ref),
              !.ano_ref = StrInt(ano_ref),
              !.dia_pag = StrInt(DIA_PAGAMENTO),
              !.mes_pag = Fmt02d(DataPagamento(mes_ref, ano_ref).mes_pag),
              !.ano_pag = StrInt(DataPagamento(mes_ref, ano_ref).ano_pag)]

\* the principal amount field: written only when valor_principal is not None
FormularioComValor(f, valor) ==
    IF EhNumero(valor) THEN [f EXCEPT !.valor = Fmt2f(Milesimos(valor))] ELSE f

(***************************************************************************)
(* excel_filiais.py: identifier normalisation and the batch row builder    *)
(***************************************************************************)
\* mutant: more than DIGITOS_IE_CE digits are kept
IeApenasDigitosSemCorte(ie) ==
    IF ie = <<>> THEN <<>>
    ELSE ZFill(SoDigitos(Strip(ie)), DIGITOS_IE_CE)

\* ie_apenas_digitos(ie)
IeApenasDigitos(ie) ==
    IF ie = <<>> THEN <<>>
    ELSE LET digitos == SoDigitos(Strip(ie))
         IN  IF Len(digitos) <= DIGITOS_IE_CE
             THEN ZFill(digitos, DIGITOS_IE_CE)
             ELSE Fatia(digitos, DIGITOS_IE_CE)

\* str.isdigit()
IsDigit(s) ==
    s # <<>> /\ \A k \in 1..Len(s) : EhDigito(s[k])

\* _normalizar_ie_zeros_esquerda(ie)
NormalizarIeZerosEsquerda(ie) ==
    IF ie = <<>> \/ Len(ie) >= DIGITOS_IE_CE THEN ie
    ELSE IF ~IsDigit(ie) THEN ie
    ELSE ZFill(ie, DIGITOS_IE_CE)

\* _valor_ie_para_string(valor): a str, or NULO for None
ValorIeParaString(valor) ==
    IF valor.t = "None" THEN NULO
    ELSE LET s == CASE valor.t = "num" -> Strip(StrInt(valor.v))
                    [] valor.t = "dec" -> Strip(StrInt(valor.v \div 1000))
                    [] OTHER -> Strip(valor.s)
         IN  IF s # <<>>
             THEN [t |-> "str", s |-> NormalizarIeZerosEsquerda(s)]
             ELSE NULO

(***************************************************************************)
(* excel_filiais.py: texts of cell values                                  *)
(***************************************************************************)
\* the three decimals of a float, without trailing zeros
DecimaisDe(milesimos) ==
    LET d == ZFill(StrNat(milesimos % 1000), 3)
    IN  IF d[3] # "0" THEN d
        ELSE IF d[2] # "0" THEN SubSeq(d, 1, 2)
        ELSE SubSeq(d, 1, 1)

\* str(valor) of a cell value: a str, an int, a float or a datetime
StrDe(valor) ==
    CASE valor.t = "str" -> valor.s
      [] valor.t = "num" -> StrInt(valor.v)
      [] valor.t = "dec" ->
            StrNat(valor.v \div 1000) \o <<".">> \o DecimaisDe(valor.v)
      [] valor.t = "date" ->
            ZFill(StrNat(valor.ano), 4) \o <<"-">> \o Fmt02d(valor.mes) \o <<"-">>
            \o Fmt02d(valor.dia) \o <<" ", "0", "0", ":", "0", "0", ":", "0", "0">>
      [] OTHER -> <<"N", "o", "n", "e">>

(***************************************************************************)
(* excel_filiais.py: header names                                          *)
(***************************************************************************)
SINONIMOS_IE ==
    <<<<"I", "N", "S", "C", ".", "E", "S", "T", "A", "D", "U", "A", "L">>,
      <<"I", "N", "S", "C", ".", " ", "E", "S", "T", "A", "D", "U", "A", "L">>,
      <<"i", ".", "e", ".">>,
      <<"i", "e">>,
      <<"i", ".", ".", "e", ".">>,
      <<"i", "n", "s", "c", "r", "i", "ç", "ã", "o", " ", "e", "s", "t", "a", "d", "u", "a", "l">>,
      <<"i", "n", "s", "c", "r", "i", "c", "a", "o", " ", "e", "s", "t", "a", "d", "u", "a", "l">>>>

MAX_LINHAS_BUSCA_CABECALHO ==
    25

\* lower-case letters that unicodedata.normalize("NFD", s) decomposes
DECOMPOSTOS ==
    <<"ç", "ã", "õ", "á", "é", "í", "ó", "ú", "â", "ê", "ô", "à">>

BASES ==
    <<"c", "a", "o", "a", "e", "i", "o", "u", "a", "e", "o", "a">>

\* the combining mark (category Mn) of each decomposed letter
MARCAS ==
    <<"U+0327", "U+0303", "U+0303", "U+0301", "U+0301", "U+0301", "U+0301", "U+0301", "U+0302", "U+0302", "U+0302", "U+0300">>

\* unicodedata.category(c) == "Mn"
CategoriaMn(c) ==
    \E k \in 1..Len(MARCAS) : MARCAS[k] = c

\* unicodedata.normalize("NFD", s) of a lower-cased text
RECURSIVE Nfd(_)
Nfd(s) ==
    IF s = <<>> THEN <<>>
    ELSE (IF \E k \in 1..Len(DECOMPOSTOS) : DECOMPOSTOS[k] = Head(s)
          THEN LET k == CHOOSE k \in 1..Len(DECOMPOSTOS) : DECOMPOSTOS[k] = Head(s)
               IN  <<BASES[k], MARCAS[k]>>
          ELSE <<Head(s)>>) \o Nfd(Tail(s))

\* "".join(c for c in s if unicodedata.category(c) != "Mn")
SemMarcas(s) ==
    SelectSeq(s, LAMBDA c : ~CategoriaMn(c))

\* "".join(c for c in s if c != ".")
SemPontos(s) ==
    SelectSeq(s, LAMBDA c : c # ".")

\* " ".join(s.split()) of a stripped text
RECURSIVE ColapsarEspacos(_)
ColapsarEspacos(s) ==
    IF s = <<>> THEN <<>>
    ELSE (IF ~EhEspaco(Head(s)) THEN <<Head(s)>>
          ELSE IF Tail(s) # <<>> /\ EhEspaco(Head(Tail(s))) THEN <<>>
          ELSE <<" ">>) \o ColapsarEspacos(Tail(s))

\* " ".join(s.split())
JuntarPalavras(s) ==
    ColapsarEspacos(Strip(s))

\* mutant: the letter case is kept
NormalizarCabecalhoSemLower(texto) ==
    IF texto.t = "None" THEN <<>>
    ELSE JuntarPalavras(SemPontos(SemMarcas(Nfd(Strip(StrDe(texto))))))

\* _normalizar_cabecalho(texto)
NormalizarCabecalho(texto) ==
    IF texto.t = "None" THEN <<>>
    ELSE JuntarPalavras(SemPontos(SemMarcas(Nfd(Lower(Strip(StrDe(texto)))))))

\* _normalizar_cabecalho(nome) for nome in SINONIMOS_IE
SinonimosNormalizados ==
    { NormalizarCabecalho(Str(SINONIMOS_IE[k])) : k \in 1..Len(SINONIMOS_IE) }

\* _celula_bate_nome_ie(valor)
CelulaBateNomeIe(valor) ==
    \E n \in {NormalizarCabecalho(valor)} :
        /\ n # <<>>
        /\ \/ n \in SinonimosNormalizados
           \/ n = <<"i", "n", "s", "c", "e", "s", "t", "a", "d", "u", "a", "l">>
           \/ n = <<"i", "n", "s", "c", " ", "e", "s", "t", "a", "d", "u", "a", "l">>

\* min(a, b)
Menor(a, b) ==
    IF a < b THEN a ELSE b

\* mutant: the search for the header goes through the whole sheet
EncontrarLinhaCabecalhoSemLimite(ws) ==
    LET PrimeiraSemLimite(candidatas) ==
            IF candidatas = {} THEN 0
            ELSE CHOOSE i \in candidatas : \A k \in candidatas : i <= k
    IN  PrimeiraSemLimite({ i \in 1..Len(ws) :
                     \E c \in 1..Len(ws[i]) : CelulaBateNomeIe(ws[i][c]) })

\* mutant: the last row with an identifier name is taken
EncontrarLinhaCabecalhoUltima(ws) ==
    LET UltimaCandidata(candidatas) ==
            IF candidatas = {} THEN 0
            ELSE CHOOSE i \in candidatas : \A k \in candidatas : i >= k
    IN  UltimaCandidata({ i \in 1..Menor(Len(ws), MAX_LINHAS_BUSCA_CABECALHO) :
                     \E c \in 1..Len(ws[i]) : CelulaBateNomeIe(ws[i][c]) })

\* _encontrar_linha_cabecalho(planilha): the 1-based row of the header, or 0
\* for None
EncontrarLinhaCabecalho(ws) ==
    LET PrimeiraCandidata(candidatas) ==
            IF candidatas = {} THEN 0
            ELSE CHOOSE i \in candidatas : \A k \in candidatas : i <= k
    IN  PrimeiraCandidata({ i \in 1..Menor(Len(ws), MAX_LINHAS_BUSCA_CABECALHO) :
                     \E c \in 1..Len(ws[i]) : CelulaBateNomeIe(ws[i][c]) })

\* the name given to column indice_col (0-based) of the header
NomeDaColuna(valor, indice_col) ==
    IF valor.t = "None" \/ (valor.t = "str" /\ Strip(valor.s) = <<>>)
    THEN <<"c", "o", "l", "_">> \o StrNat(indice_col)
    ELSE Strip(StrDe(valor))

\* nome in nome_para_indice
TemChave(mapa, nome) ==
    \E k \in 1..Len(mapa) : mapa[k].nome = nome

\* nome_para_indice[nome] = indice_col on a dict kept in insertion order
PorChave(mapa, nome, indice_col) ==
    IF TemChave(mapa, nome)
    THEN [k \in 1..Len(mapa) |->
             IF mapa[k].nome = nome THEN [nome |-> nome, indice |-> indice_col]
             ELSE mapa[k]]
    ELSE Append(mapa, [nome |-> nome, indice |-> indice_col])

\* the loop of _mapear_cabecalho over the header cells: nome_para_indice
RECURSIVE MapearNomes(_, _, _)
MapearNomes(celulas, k, mapa) ==
    IF k > Len(celulas) THEN mapa
    ELSE LET Unico(nome) ==
                 IF TemChave(mapa, nome)
                 THEN nome \o <<"_">> \o StrNat(k - 1) ELSE nome
         IN  MapearNomes(celulas, k + 1,
                         PorChave(mapa, Unico(NomeDaColuna(celulas[k], k - 1)), k - 1))

\* coluna_ie of _mapear_cabecalho: the 0-based index of the last header cell
\* that matches, or -1
ColunaIe(celulas) ==
    LET Ultima(bate) ==
            IF bate = {} THEN -1
            ELSE (CHOOSE k \in bate : \A j \in bate : j <= k) - 1
    IN  Ultima({ k \in 1..Len(celulas) : CelulaBateNomeIe(celulas[k]) })

\* _obter_chave_ie(nome_para_indice): a str, or NULO for None
ObterChaveIe(mapa) ==
    LET PrimeiraChaveIe(boas) ==
            IF boas = {} THEN NULO
            ELSE Str(mapa[CHOOSE k \in boas : \A j \in boas : k <= j].nome)
    IN  PrimeiraChaveIe({ k \in 1..Len(mapa) : CelulaBateNomeIe(Str(mapa[k].nome)) })

\* the first key whose normalised text is that of `titulo`, or NULO
ChaveDeTitulo(mapa, titulo) ==
    LET PrimeiraChave(boas) ==
            IF boas = {} THEN NULO
            ELSE Str(mapa[CHOOSE k \in boas : \A j \in boas : k <= j].nome)
    IN  PrimeiraChave({ k \in 1..Len(mapa) :
                     NormalizarCabecalho(Str(mapa[k].nome))
                         = NormalizarCabecalho(Str(titulo)) })

\* mutant: the amount is read from the column NORMAL
ObterChaveTotalNormal(mapa) ==
    ChaveDeTitulo(mapa, <<"N", "O", "R", "M", "A", "L">>)

\* _obter_chave_total(nome_para_indice)
ObterChaveTotal(mapa) ==
    ChaveDeTitulo(mapa, <<"T", "O", "T", "A", "L">>)

(***************************************************************************)
(* excel_filiais.py: the reference period of the title area                *)
(***************************************************************************)
MAX_LINHAS_BUSCA_PERIODO ==
    12

MAX_COLUNAS_BUSCA_PERIODO ==
    30

MESES_ABREV ==
    <<<<"j", "a", "n">>, <<"f", "e", "v">>, <<"m", "a", "r">>, <<"a", "b", "r">>, <<"m", "a", "i">>, <<"j", "u", "n">>, <<"j", "u", "l">>, <<"a", "g", "o">>, <<"s", "e", "t">>, <<"o", "u", "t">>, <<"n", "o", "v">>, <<"d", "e", "z">>>>

SERIAL_MINIMO ==
    2000

SERIAL_MAXIMO ==
    100000

\* two-digit years below it belong to 20xx, the others to 19xx
VIRADA_SECULO ==
    50

\* (None, None)
SEM_PERIODO ==
    [mes_ref |-> NULO, ano_ref |-> NULO]

\* (mes, ano)
Par(mes, ano) ==
    [mes_ref |-> Num(mes), ano_ref |-> Num(ano)]

\* mutant: only the month is tested
PeriodoNaFaixaSoMes(mes, ano) ==
    mes >= 1 /\ mes <= 12

\* 1 <= mes <= 12 and 1995 <= ano <= 2030
PeriodoNaFaixa(mes, ano) ==
    mes >= 1 /\ mes <= 12 /\ ano >= ANO_MINIMO /\ ano <= ANO_MAXIMO

EhBissexto(ano) ==
    ano % 4 = 0 /\ (ano % 100 # 0 \/ ano % 400 = 0)

DiasDoAno(ano) ==
    IF EhBissexto(ano) THEN 366 ELSE 365

DiasDoMes(ano, mes) ==
    CASE mes = 2 -> IF EhBissexto(ano) THEN 29 ELSE 28
      [] mes \in {4, 6, 9, 11} -> 30
      [] OTHER -> 31

\* the month and day of the day number `dias` (from 0) of year `ano`
RECURSIVE AvancarMeses(_, _, _)
AvancarMeses(dias, ano, mes) ==
    IF dias >= DiasDoMes(ano, mes)
    THEN AvancarMeses(dias - DiasDoMes(ano, mes), ano, mes + 1)
    ELSE Data(ano, mes, dias + 1)

\* the date that lies `dias` days after the first of January of `ano`
RECURSIVE AvancarAnos(_, _)
AvancarAnos(dias, ano) ==
    IF dias >= DiasDoAno(ano)
    THEN AvancarAnos(dias - DiasDoAno(ano), ano + 1)
    ELSE AvancarMeses(dias, ano, 1)

\* datetime(1899, 12, 30) + timedelta(days=n), for n >= 2
DataDoSerial(n) ==
    AvancarAnos(n - 2, 1900)

\* re.split(r"[/\-.]", s)
RECURSIVE Partes(_, _)
Partes(s, atual) ==
    IF s = <<>> THEN <<atual>>
    ELSE LET separador == Head(s) \in {"/", "-", "."}
         IN  (IF separador THEN <<atual>> ELSE <<>>)
             \o Partes(Tail(s), IF separador THEN <<>> ELSE Append(atual, Head(s)))

\* [p.strip() for p in partes if p.strip()]
PartesUteis(partes) ==
    SelectSeq([k \in 1..Len(partes) |-> Strip(partes[k])], LAMBDA p : p # <<>>)

\* [int(p) for p in part if p.isdigit()]
NumerosDe(part) ==
    LET numericas == SelectSeq(part, IsDigit)
    IN  [k \in 1..Len(numericas) |-> ValorDecimal(numericas[k])]

\* the "1/1/2026" or "1/2026" branch of _parsear_celula_periodo
PeriodoDasPartes(s) ==
    LET part == PartesUteis(Partes(s, <<>>))
        nums == NumerosDe(part)
    IN  IF Len(part) >= 2 /\ Len(nums) >= 2
        THEN LET mes == IF Len(nums) = 2 THEN nums[1] ELSE nums[2]
                 ano == IF Len(nums) = 2 THEN nums[2] ELSE nums[3]
             IN  IF PeriodoNaFaixa(mes, ano) THEN Par(mes, ano) ELSE SEM_PERIODO
        ELSE SEM_PERIODO

\* the regular expression ^(jan|...|dez)[\s\-/](\d{2})$ on s.lower()
CasaMesAbreviado(baixo) ==
    /\ Len(baixo) = 6
    /\ \E k \in 1..Len(MESES_ABREV) : SubSeq(baixo, 1, 3) = MESES_ABREV[k]
    /\ EhEspaco(baixo[4]) \/ baixo[4] \in {"-", "/"}
    /\ EhDigito(baixo[5])
    /\ EhDigito(baixo[6])

\* the string branch of _parsear_celula_periodo, on the stripped text
PeriodoDoTexto(s) ==
    IF s = <<>> THEN SEM_PERIODO
    ELSE LET baixo == Lower(s)
         IN  IF CasaMesAbreviado(baixo)
             THEN LET mes == CHOOSE k \in 1..Len(MESES_ABREV) :
                                 SubSeq(baixo, 1, 3) = MESES_ABREV[k]
                      ano_2 == ValorDecimal(SubSeq(baixo, 5, 6))
                      ano == IF ano_2 < VIRADA_SECULO THEN 2000 + ano_2
                             ELSE 1900 + ano_2
                  IN  IF ano >= ANO_MINIMO /\ ano <= ANO_MAXIMO
                      THEN Par(mes, ano)
                      ELSE PeriodoDasPartes(s)
             ELSE PeriodoDasPartes(s)

\* int(valor) of a number that is not negative
ParteInteira(valor) ==
    IF valor.t = "num" THEN valor.v ELSE valor.v \div 1000

\* 2000 < valor < 100000
NaFaixaDeSerial(valor) ==
    IF valor.t = "num"
    THEN valor.v > SERIAL_MINIMO /\ valor.v < SERIAL_MAXIMO
    ELSE valor.v \div 1000 >= SERIAL_MINIMO /\ valor.v \div 1000 < SERIAL_MAXIMO

\* _parsear_celula_periodo(valor)
ParsearCelulaPeriodo(valor) ==
    CASE valor.t = "date" ->
            IF PeriodoNaFaixa(valor.mes, valor.ano)
            THEN Par(valor.mes, valor.ano) ELSE SEM_PERIODO
      [] EhNumero(valor) ->
            IF NaFaixaDeSerial(valor)
            THEN LET d == DataDoSerial(ParteInteira(valor))
                 IN  IF PeriodoNaFaixa(d.mes, d.ano)
                     THEN Par(d.mes, d.ano) ELSE SEM_PERIODO
            ELSE SEM_PERIODO
      [] valor.t = "str" -> PeriodoDoTexto(Strip(valor.s))
      [] OTHER -> SEM_PERIODO

\* the cells (row, column) of the title area that parse to a period
CelulasComPeriodo(ws) ==
    UNION { { <<r, c>> : c \in { k \in 1..Menor(Len(ws[r]), MAX_COLUNAS_BUSCA_PERIODO) :
                                    /\ ws[r][k].t # "None"
                                    /\ ParsearCelulaPeriodo(ws[r][k]) # SEM_PERIODO } } :
            r \in 1..Menor(Len(ws), MAX_LINHAS_BUSCA_PERIODO) }

\* mutant: a sheet without a period gets a default one
ExtrairPeriodoDaAreaTituloComPadrao(ws) ==
    LET boas == CelulasComPeriodo(ws)
    IN  IF boas = {} THEN Par(1, 2026)
        ELSE LET rc == CHOOSE a \in boas : \A b \in boas :
                           a[1] < b[1] \/ (a[1] = b[1] /\ a[2] <= b[2])
             IN  ParsearCelulaPeriodo(ws[rc[1]][rc[2]])

\* mutant: the last cell of the area that parses wins
ExtrairPeriodoDaAreaTituloUltima(ws) ==
    LET boas == CelulasComPeriodo(ws)
    IN  IF boas = {} THEN SEM_PERIODO
        ELSE LET rc == CHOOSE a \in boas : \A b \in boas :
                           a[1] > b[1] \/ (a[1] = b[1] /\ a[2] >= b[2])
             IN  ParsearCelulaPeriodo(ws[rc[1]][rc[2]])

\* _extrair_periodo_da_area_titulo(planilha): the period of the first cell,
\* row by row, that parses; SEM_PERIODO stands for the ValueError
ExtrairPeriodoDaAreaTitulo(ws) ==
    LET boas == CelulasComPeriodo(ws)
    IN  IF boas = {} THEN SEM_PERIODO
        ELSE LET rc == CHOOSE a \in boas : \A b \in boas :
                           a[1] < b[1] \/ (a[1] = b[1] /\ a[2] <= b[2])
             IN  ParsearCelulaPeriodo(ws[rc[1]][rc[2]])

(***************************************************************************)
(* excel_filiais.py: the data rows                                         *)
(***************************************************************************)
\* _valor_celula_para_python(valor)
ValorCelulaParaPython(valor) ==
    IF valor.t = "None" THEN NULO
    ELSE IF EhNumero(valor) THEN valor
    ELSE IF Strip(StrDe(valor)) # <<>> THEN Str(Strip(StrDe(valor)))
    ELSE NULO

\* mutant: only the exact text TOTAL ends the data
EhLinhaFimDadosTotalExato(valor_ie) ==
    /\ valor_ie.t # "None"
    /\ LET v == Upper(Strip(StrDe(valor_ie)))
       IN  v = <<"T", "O", "T", "A", "L">> \/ v = <<"C", "E", "A", "R", "A">>

\* _eh_linha_fim_dados(valor_ie)
EhLinhaFimDados(valor_ie) ==
    /\ valor_ie.t # "None"
    /\ LET v == Upper(Strip(StrDe(valor_ie)))
       IN  /\ v # <<>>
           /\ StartsWith(v, <<"T", "O", "T", "A", "L">>) \/ v = <<"C", "E", "A", "R", "A">>

\* nome_para_indice[nome]
IndiceDe(mapa, nome) ==
    mapa[CHOOSE k \in 1..Len(mapa) : mapa[k].nome = nome].indice

\* linha_dict of one row: every mapped column, then the identifier column
\* normalised by _valor_ie_para_string
LinhaDict(celulas, mapa) ==
    LET bruto == [nome \in { mapa[k].nome : k \in 1..Len(mapa) } |->
                     IF IndiceDe(mapa, nome) < Len(celulas)
                     THEN ValorCelulaParaPython(celulas[IndiceDe(mapa, nome) + 1])
                     ELSE NULO]
        ie_key == ObterChaveIe(mapa)
    IN  IF ie_key.t # "None" /\ bruto[ie_key.s].t # "None"
        THEN LET normalizada == ValorIeParaString(bruto[ie_key.s])
             IN  IF normalizada.t # "None"
                 THEN [bruto EXCEPT ![ie_key.s] = normalizada]
                 ELSE bruto
        ELSE bruto

\* the loop of extrair_todos_os_dados over the rows after the header, with
\* its break
RECURSIVE LerLinhas(_, _, _)
LerLinhas(rows, mapa, coluna_ie) ==
    IF rows = <<>> THEN <<>>
    ELSE LET celulas == Head(rows)
             valor_ie == IF coluna_ie < Len(celulas) THEN celulas[coluna_ie + 1]
                         ELSE NULO
         IN  IF EhLinhaFimDados(valor_ie) THEN <<>>
             ELSE <<LinhaDict(celulas, mapa)>>
                  \o LerLinhas(Tail(rows), mapa, coluna_ie)

\* raise ValueError(...)
VALUE_ERROR ==
    [t |-> "raise", tipo |-> "ValueError"]

\* extrair_todos_os_dados on the active sheet ws of an existing file
ExtrairDaPlanilha(ws) ==
    LET Mapeada(indice_cabecalho, mapa, coluna_ie, per) ==
            IF coluna_ie < 0 THEN VALUE_ERROR
            ELSE IF per = SEM_PERIODO THEN VALUE_ERROR
            ELSE [t |-> "tuple",
                  linhas |-> LerLinhas(SubSeq(ws, indice_cabecalho + 1, Len(ws)),
                                       mapa, coluna_ie),
                  nome_para_indice |-> mapa,
                  periodo |-> per]
        ComCabecalho(indice_cabecalho) ==
            IF indice_cabecalho = 0 THEN VALUE_ERROR
            ELSE Mapeada(indice_cabecalho,
                         MapearNomes(ws[indice_cabecalho], 1, <<>>),
                         ColunaIe(ws[indice_cabecalho]),
                         ExtrairPeriodoDaAreaTitulo(ws))
    IN  ComCabecalho(EncontrarLinhaCabecalho(ws))

(***************************************************************************)
(* excel_filiais.py: the batch row builder                                 *)
(***************************************************************************)
\* s.replace(",", ".")
VirgulaPorPonto(s) ==
    [k \in 1..Len(s) |-> IF s[k] = "," THEN "." ELSE s[k]]

\* the position of the first "." of s, or 0
PosicaoDoPonto(s) ==
    LET pontos == { k \in 1..Len(s) : s[k] = "." }
    IN  IF pontos = {} THEN 0 ELSE CHOOSE k \in pontos : \A j \in pontos : k <= j

\* float(s) for an unsigned decimal text with at most three decimals, as
\* a number; NULO stands for the ValueError of any other text
FloatDe(s) ==
    LET p == PosicaoDoPonto(s)
        inteira == IF p = 0 THEN s ELSE SubSeq(s, 1, p - 1)
        fracao == IF p = 0 THEN <<>> ELSE SubSeq(s, p + 1, Len(s))
        valida == /\ inteira # <<>> \/ fracao # <<>>
                  /\ inteira = <<>> \/ IsDigit(inteira)
                  /\ fracao = <<>> \/ IsDigit(fracao)
                  /\ Len(fracao) <= 3
    IN  IF ~valida THEN NULO
        ELSE LET milesimos == 1000 * ValorDecimal(inteira)
                              + ValorDecimal(fracao \o Repetir("0", 3 - Len(fracao)))
             IN  IF milesimos % 1000 = 0 THEN Num(milesimos \div 1000)
                 ELSE Dec(milesimos)

\* mutant: a text with a decimal comma is not converted
ValorNormalSemVirgula(v) ==
    IF EhNumero(v) THEN v
    ELSE IF v.t # "None" /\ Strip(StrDe(v)) # <<>>
    THEN FloatDe(Strip(StrDe(v)))
    ELSE NULO

\* mutant: the periods of a text are taken as thousands separators
ValorNormalComMilhar(v) ==
    IF EhNumero(v) THEN v
    ELSE IF v.t # "None" /\ Strip(StrDe(v)) # <<>>
    THEN FloatDe(VirgulaPorPonto(SelectSeq(Strip(StrDe(v)), LAMBDA c : c # ".")))
    ELSE NULO

\* valor_normal of obter_dados_para_dae for the value v of the TOTAL column
ValorNormalDe(v) ==
    IF EhNumero(v) THEN v
    ELSE IF v.t # "None" /\ Strip(StrDe(v)) # <<>>
    THEN FloatDe(VirgulaPorPonto(Strip(StrDe(v))))
    ELSE NULO

\* row.get(chave)
Obter(row, chave) ==
    IF chave \in DOMAIN row THEN row[chave] ELSE NULO

\* mutant: a row without identifier is kept, with an empty identifier
IeDaLinhaSemFiltro(valor_ie) ==
    IF valor_ie.t \in {"str", "num", "dec"} /\ ValorIeParaString(valor_ie).t = "str"
    THEN ValorIeParaString(valor_ie)
    ELSE Str(<<>>)

\* ie_str of obter_dados_para_dae: a str, or NULO when the row is dropped
IeDaLinha(valor_ie) ==
    IF valor_ie.t \in {"str", "num", "dec"} THEN ValorIeParaString(valor_ie)
    ELSE IF valor_ie.t # "None" THEN Str(StrDe(valor_ie))
    ELSE NULO

\* the loop of obter_dados_para_dae over the rows, in order
RECURSIVE ItensParaDae(_, _, _, _, _)
ItensParaDae(rows, ie_key, total_key, mes_ref, ano_ref) ==
    IF rows = <<>> THEN <<>>
    ELSE LET row == Head(rows)
             ie_str == IeDaLinha(Obter(row, ie_key.s))
             resto == ItensParaDae(Tail(rows), ie_key, total_key, mes_ref, ano_ref)
         IN  IF ie_str.t = "None" THEN resto
             ELSE <<[ie |-> ie_str.s,
                     ie_digitos |-> IeApenasDigitos(ie_str.s),
                     valor_normal |-> IF total_key.t = "None" THEN NULO
                                      ELSE ValorNormalDe(Obter(row, total_key.s)),
                     mes_ref |-> mes_ref,
                     ano_ref |-> ano_ref]>> \o resto

\* mes_ref is None or ano_ref is None
PeriodoAusente(per) ==
    per.mes_ref.t = "None" \/ per.ano_ref.t = "None"

\* obter_dados_para_dae(linhas, nome_para_indice, mes_ref, ano_ref)
DadosParaDae(rows, mapa, per) ==
    IF PeriodoAusente(per) THEN VALUE_ERROR
    ELSE IF ObterChaveIe(mapa).t = "None" THEN VALUE_ERROR
    ELSE [t |-> "list",
          itens |-> ItensParaDae(rows, ObterChaveIe(mapa), ObterChaveTotal(mapa),
                                 per.mes_ref, per.ano_ref)]

(***************************************************************************)
(* Inputs of the batch: items as the dicts read by executar_fluxo_por_ie   *)
(***************************************************************************)
Item(ie, ie_digitos, valor, mes, ano) ==
    [ie |-> ie, ie_digitos |-> ie_digitos, valor_normal |-> valor,
     mes_ref |-> mes, ano_ref |-> ano]

IE_A ==
    <<"6", "1">>

IE_B ==
    <<"7", ".", "2">>

IE_C ==
    <<"8">>

Itens ==
    { Item(IE_A, IeApenasDigitos(IE_A), Num(100000), Num(1), Num(2026)),
      Item(IE_B, IeApenasDigitos(IE_B), Num(127739), Num(12), Num(2025)),
      Item(IE_A, IeApenasDigitos(IE_A), NULO, Num(1), Num(2026)),
      Item(IE_B, IeApenasDigitos(IE_B), Num(0), Num(1), Num(2026)),
      Item(IE_C, IeApenasDigitos(IE_C), Str(<<" ">>), Num(1), Num(2026)),
      Item(IE_C, IeApenasDigitos(IE_C), Str(<<" ", "N", "u", "l", "l">>),
           Num(1), Num(2026)),
      Item(IE_A, IeApenasDigitos(IE_A), Num(100000), NULO, Num(2026)),
      Item(IE_C, IeApenasDigitos(IE_C), NULO, Num(1), NULO),
      Item(<<>>, <<>>, Num(100000), Num(1), Num(2026)),
      Item(<<>>, <<>>, Num(0), Num(1), Num(2026)),
      Item(IE_B, <<>>, Num(100000), Num(1), Num(2026)) }

ListasAte(n) ==
    UNION { [1..k -> Itens] : k \in 0..n }

\* exception messages: esq spaces, corpo letters, dir spaces, then an
\* optional second line
Mensagem(esq, corpo, dir, segunda) ==
    Repetir(" ", esq) \o Repetir("x", corpo) \o Repetir(" ", dir)
    \o (IF segunda THEN <<"\n", "y">> ELSE <<>>)

Mensagens ==
    { Mensagem(esq, corpo, dir, segunda) :
        esq \in 0..MaxEspacos,
        corpo \in {0, 1} \cup ((LIMITE_MOTIVO - FolgaMotivo)..(LIMITE_MOTIVO + FolgaMotivo)),
        dir \in 0..MaxEspacos,
        segunda \in BOOLEAN }

MensagensLote ==
    { <<>>, Mensagem(0, 1, 0, FALSE) }

MAXLEN_CAPTCHA ==
    6

\* values returned by solver.solve_and_return_solution(caminho_imagem)
RespostasDoSolver ==
    { NULO, Num(0), Str(<<>>), Str(<<" ", "\t">>), Num(7),
      Str(<<" ", "a", "b", "c", " ">>), Str(<<"a", "b", "c", "d", "e", "f", "g">>) }

\* an exception raised by resolver_imagem in the worker thread
EXCECAO_DO_SOLVER ==
    [t |-> "raise", tipo |-> "Exception"]

\* mutant: only None counts as no solution and the text is not stripped
ResolverImagemSemStrip(texto) ==
    IF texto.t = "None" THEN NULO
    ELSE IF texto.t = "str" THEN texto
    ELSE Str(StrDe(texto))

\* resolver_imagem(caminho_imagem), for the value `texto` that the service
\* returned: None, or the stripped text
ResolverImagem(texto) ==
    IF \/ texto.t = "None"
       \/ EhNumero(texto) /\ texto.v = 0
       \/ texto.t = "str" /\ Strip(texto.s) = <<>>
    THEN NULO
    ELSE IF texto.t = "str" THEN Str(Strip(texto.s))
    ELSE Str(Strip(StrDe(texto)))

\* no call of asyncio.to_thread(resolver_imagem, ...) has been made
SOLVER_OCIOSO ==
    [estado |-> "ocioso", resposta |-> NULO, texto |-> NULO]

\* with tempfile.NamedTemporaryFile(suffix=".png", delete=False)
CriarTemporario(arquivos) ==
    Append(arquivos, "existe")

\* mutant: the temporary file is left behind
RemoverOmitido(arquivos) ==
    arquivos

\* finally: path_captcha.unlink(missing_ok=True), on the file created last
Remover(arquivos) ==
    [arquivos EXCEPT ![Len(arquivos)] = "removido"]

RECURSOS ==
    <<"context", "browser", "playwright">>

(***************************************************************************)
(* executar_fluxo_por_ie: state after the call is entered                  *)
(***************************************************************************)
InitFluxo(listas) ==
    /\ lista_dados \in listas
    /\ pc = "iniciar"
    /\ indice = 1
    /\ ies_sucesso = <<>>
    /\ ies_erro = <<>>
    /\ e = NULO
    /\ excecao = "nenhuma"
    /\ retorno = NULO
    /\ log = <<>>
    /\ encerramentos = 0
    /\ iniciados = {}
    /\ fechados = {}
    /\ formulario = FormularioVazio
    /\ lancamentos = [k \in 1..Len(lista_dados) |-> 0]
    /\ erro_captcha = FALSE
    /\ temporarios = <<>>
    /\ solver = SOLVER_OCIOSO

\* no sheet has been read
InitExcelOcioso ==
    /\ planilha = <<>>
    /\ extracao = "nenhuma"
    /\ linhas = <<>>
    /\ nome_para_indice = <<>>
    /\ periodo = SEM_PERIODO
    /\ resultado = NULO

\* mutant: only a missing or empty key is fatal
ConfiguracoesDeSemStrip(_key) ==
    IF _key.t = "None" \/ _key.s = <<>>
    THEN [estado |-> "SystemExit", ANTI_CAPTCHA_API_KEY |-> NULO]
    ELSE [estado |-> "importado", ANTI_CAPTCHA_API_KEY |-> Str(Strip(_key.s))]

\* configuracoes.py, lines 61-65: the module body ends, or raises SystemExit
ConfiguracoesDe(_key) ==
    IF _key.t = "None" \/ _key.s = <<>> \/ Strip(_key.s) = <<>>
    THEN [estado |-> "SystemExit", ANTI_CAPTCHA_API_KEY |-> NULO]
    ELSE [estado |-> "importado", ANTI_CAPTCHA_API_KEY |-> Str(Strip(_key.s))]

\* AppFiliais.__init__: no batch is running, no selection window is open
GUI_INICIAL ==
    [em_execucao |-> FALSE, botoes |-> "normal", janelas |-> 0, threads |-> 0,
     pendentes |-> 0, recusada |-> FALSE]

InitGuiOciosa ==
    gui = GUI_INICIAL

\* the program has imported configuracoes with a usable key
InitConfigCarregada ==
    /\ ambiente = Str(<<"c", "h", "a", "v", "e">>)
    /\ configuracoes = ConfiguracoesDe(ambiente)

Init ==
    /\ InitGuiOciosa
    /\ InitFluxo(ListasAte(MaxItens))
    /\ InitExcelOcioso
    /\ InitConfigCarregada

(***************************************************************************)
(* executar_fluxo_por_ie: control flow helpers                             *)
(***************************************************************************)
ItemAtual ==
    lista_dados[indice]

\* mutant: an exception leaves the function without passing the finally block
PropagarSemFinally(tipo) ==
    /\ excecao' = tipo
    /\ pc' = "propagou"

\* an exception raised inside the try block: control goes to the finally block
Propagar(tipo) ==
    /\ excecao' = tipo
    /\ pc' = "finally"

\* `continue`, or the end of the loop body: next item of enumerate(lista_dados)
ProximoItem ==
    /\ indice' = indice + 1
    /\ pc' = "laco"

\* mutant: the success is not recorded
RegistrarSucessoOmitido(sucesso, ie) ==
    sucesso

\* ies_sucesso.append(ie)
RegistrarSucesso(sucesso, ie) ==
    Append(sucesso, ie)

\* ies_erro.append((ie, motivo))
RegistrarErro(erro, ie, motivo) ==
    Append(erro, <<ie, motivo>>)

Lancar ==
    [lancamentos EXCEPT ![indice] = @ + 1]

\* mutant: the delay is made before every item
PrecisaRecarregarSempre(i) ==
    TRUE

\* mutant: the reload is skipped for the second item as well
PrecisaRecarregarAposSegundo(i) ==
    i > 2

\* mutant: the entry page is never loaded again
PrecisaRecarregarNunca(i) ==
    FALSE

\* `if indice > 0` of the 0-based loop: every item but the first of the list
PrecisaRecarregar(i) ==
    i > 1

\* mutant: the finally block ends with a return, swallowing the exception
DesfechoSempreRetorna(exc) ==
    "retornou"

\* after the finally block: return the ledger, or re-raise
Desfecho(exc) ==
    IF exc = "nenhuma" THEN "retornou" ELSE "propagou"

\* mutant: the failure branch lacks its `continue`
FalharItemSemContinue(ie, motivo) ==
    /\ ies_erro' = RegistrarErro(ies_erro, ie, motivo)
    /\ lancamentos' = Lancar
    /\ IF pc \in {"passo4", "solver"} THEN ProximoItem
       ELSE /\ indice' = indice
            /\ pc' = CASE pc = "laco" -> "passo1"
                        [] pc = "passo1" -> "passo2"
                        [] pc = "passo2" -> "passo3"
                        [] OTHER -> "passo4"
    /\ UNCHANGED <<ies_sucesso, excecao>>

\* the item fails with a fixed reason and the loop continues
FalharItem(ie, motivo) ==
    /\ ies_erro' = RegistrarErro(ies_erro, ie, motivo)
    /\ lancamentos' = Lancar
    /\ ProximoItem
    /\ UNCHANGED <<ies_sucesso, excecao>>

\* mutant: the handlers record the failure without a screenshot attempt
CapturaDeTelaOmitida ==
    <<>>

\* await tirar_captura_de_tela_em_erro(self._pagina, ...) of a step handler
CapturaDeTela ==
    <<"screenshot_erro">>

\* the `except Exception as e` block of steps 2, 3 and 4: screenshot, then
\* the ledger entry; an exception of the screenshot leaves the handler
TratarExcecao(msg, padrao, capturaOk) ==
    /\ e' = Str(msg)
    /\ IF capturaOk
       THEN FalharItem(ItemAtual.ie, MotivoDaExcecao(msg, padrao))
       ELSE /\ Propagar("Exception")
            /\ UNCHANGED <<indice, ies_sucesso, ies_erro, lancamentos>>

(***************************************************************************)
(* executar_fluxo_por_ie: the steps                                        *)
(***************************************************************************)
\* await self._iniciar_browser(): etapa counts the completed stages
\* (playwright start, chromium launch, new_context, new_page)
IniciarBrowser ==
    /\ pc = "iniciar"
    /\ \E etapa \in 0..4 :
          /\ iniciados' = CASE etapa = 0 -> {}
                            [] etapa = 1 -> {"playwright"}
                            [] etapa = 2 -> {"playwright", "browser"}
                            [] OTHER -> {"playwright", "browser", "context"}
          /\ IF etapa = 4
             THEN pc' = "acessar" /\ UNCHANGED excecao
             ELSE Propagar("Exception")
    /\ UNCHANGED <<lista_dados, indice, ies_sucesso, ies_erro, e, retorno, log,
                   encerramentos, fechados, formulario, lancamentos>>
    /\ UNCHANGED <<erro_captcha, temporarios, solver>>
    /\ UNCHANGED varsEntrada

\* _acessar_pagina_inicial(): goto, then aguardar_pagina_carregar
Navegar(antes, destino) ==
    \E r \in {"ok", "falha_goto", "falha_idle"} :
       /\ log' = log \o antes \o
                 (IF r = "falha_goto" THEN <<"goto">> ELSE <<"goto", "wait_idle">>)
       /\ formulario' = FormularioVazio
       /\ IF r = "ok"
          THEN pc' = destino /\ UNCHANGED excecao
          ELSE Propagar("Exception")

\* the first await self._acessar_pagina_inicial(), before the loop
AcessarPaginaInicial ==
    /\ pc = "acessar"
    /\ Navegar(<<>>, "laco")
    /\ UNCHANGED <<lista_dados, indice, ies_sucesso, ies_erro, e, retorno,
                   encerramentos, iniciados, fechados, lancamentos>>
    /\ UNCHANGED <<erro_captcha, temporarios, solver>>
    /\ UNCHANGED varsEntrada

\* head of the loop body: the pre-checks of one item
PreCheck ==
    /\ pc = "laco"
    /\ indice <= Len(lista_dados)
    /\ e' = NULO
    /\ erro_captcha' = FALSE
    /\ IF ~PeriodoConversivel(ItemAtual)
       THEN FalharItem(IeOuVazio(ItemAtual.ie), MOTIVO_PERIODO_AUSENTE)
       ELSE IF ItemAtual.ie = <<>> \/ ItemAtual.ie_digitos = <<>>
       THEN FalharItem(IeOuVazio(ItemAtual.ie), MOTIVO_IE_INVALIDA)
       ELSE IF ValorTotalInvalido(ItemAtual.valor_normal)
       THEN /\ ProximoItem
            /\ UNCHANGED <<ies_sucesso, ies_erro, excecao, lancamentos>>
       ELSE /\ pc' = IF PrecisaRecarregar(indice) THEN "recarga" ELSE "passo1"
            /\ UNCHANGED <<indice, ies_sucesso, ies_erro, excecao, lancamentos>>
    /\ UNCHANGED <<lista_dados, retorno, log, encerramentos, iniciados, fechados,
                   formulario, temporarios, solver>>
    /\ UNCHANGED varsEntrada

\* the loop is exhausted: the try block ends normally
FimDoLaco ==
    /\ pc = "laco"
    /\ indice > Len(lista_dados)
    /\ pc' = "finally"
    /\ UNCHANGED <<lista_dados, indice, ies_sucesso, ies_erro, e, excecao, retorno,
                   log, encerramentos, iniciados, fechados, formulario, lancamentos>>
    /\ UNCHANGED <<erro_captcha, temporarios, solver>>
    /\ UNCHANGED varsEntrada

\* asyncio.sleep(INTERVALO_ENTRE_EXECUCOES_MS), then _acessar_pagina_inicial()
Recarregar ==
    /\ pc = "recarga"
    /\ Navegar(<<"sleep">>, "passo1")
    /\ UNCHANGED <<lista_dados, indice, ies_sucesso, ies_erro, e, retorno,
                   encerramentos, iniciados, fechados, lancamentos>>
    /\ UNCHANGED <<erro_captcha, temporarios, solver>>
    /\ UNCHANGED varsEntrada

\* Passo 1: _preencher_ie_e_avancar(ie_digitos) and `if not ok`
Passo1 ==
    /\ pc = "passo1"
    /\ \E r \in {"ok", "timeout_receita", "falha_campo", "falha_clique"},
          capturaOk \in BOOLEAN :
          /\ r \in {"ok", "timeout_receita"} => capturaOk
          /\ log' = log \o
                (CASE r = "falha_campo" -> <<"wait_campo_ie">>
                   [] r = "falha_clique" ->
                        <<"wait_campo_ie", "fill_ie", "fill_ie",
                          "wait_botao_avancar", "click_avancar">>
                   [] OTHER ->
                        <<"wait_campo_ie", "fill_ie", "fill_ie",
                          "wait_botao_avancar", "click_avancar", "wait_receita">>)
                \o (IF r \in {"falha_campo", "falha_clique"}
                    THEN CapturaDeTela ELSE <<>>)
          /\ IF r = "ok"
             THEN /\ pc' = "passo2"
                  /\ UNCHANGED <<indice, ies_sucesso, ies_erro, excecao, lancamentos>>
             ELSE IF capturaOk
             THEN FalharItem(ItemAtual.ie, MOTIVO_IE_NAO_ENCONTRADA)
             ELSE /\ Propagar("Exception")
                  /\ UNCHANGED <<indice, ies_sucesso, ies_erro, lancamentos>>
    /\ UNCHANGED <<lista_dados, e, retorno, encerramentos, iniciados, fechados,
                   formulario>>
    /\ UNCHANGED <<erro_captcha, temporarios, solver>>
    /\ UNCHANGED varsEntrada

\* Passo 2: _selecionar_receita_e_preencher_dae() and its handler
Passo2(Msgs) ==
    /\ pc = "passo2"
    /\ \/ /\ log' = log \o <<"select_receita", "click_preencher_dae", "wait_idle">>
          /\ pc' = "passo3"
          /\ UNCHANGED <<indice, ies_sucesso, ies_erro, e, excecao, lancamentos>>
       \/ \E r \in {"falha_select", "falha_clique", "falha_idle"},
             msg \in Msgs, capturaOk \in BOOLEAN :
             /\ log' = log \o
                   (CASE r = "falha_select" -> <<"select_receita">>
                      [] r = "falha_clique" ->
                           <<"select_receita", "click_preencher_dae">>
                      [] OTHER ->
                           <<"select_receita", "click_preencher_dae", "wait_idle">>)
                   \o CapturaDeTela
             /\ TratarExcecao(msg, MOTIVO_PADRAO_RECEITA, capturaOk)
    /\ UNCHANGED <<lista_dados, retorno, encerramentos, iniciados, fechados,
                   formulario>>
    /\ UNCHANGED <<erro_captcha, temporarios, solver>>
    /\ UNCHANGED varsEntrada

EVENTOS_PERIODO ==
    <<"wait_mes_ref", "fill_mes_ref", "fill_ano_ref", "fill_dia_pag",
      "fill_mes_pag", "fill_ano_pag">>

\* Passo 3: wait for the form, _preencher_formulario_dae(), and its handler
Passo3(Msgs) ==
    /\ pc = "passo3"
    /\ LET mes == ItemAtual.mes_ref.v
           ano == ItemAtual.ano_ref.v
           valor == ItemAtual.valor_normal
       IN
       \/ /\ valor.t # "str"
          /\ log' = log \o EVENTOS_PERIODO \o
                    (IF EhNumero(valor) THEN <<"fill_valor">> ELSE <<>>)
          /\ formulario' = FormularioComValor(
                               FormularioComPeriodo(formulario, mes, ano), valor)
          /\ pc' = "passo4"
          /\ UNCHANGED <<indice, ies_sucesso, ies_erro, e, excecao, lancamentos>>
       \/ \E r \in {"falha_espera", "falha_valor"},
             msg \in Msgs, capturaOk \in BOOLEAN :
             /\ r = "falha_valor" => valor.t # "None"
             /\ log' = log \o
                   (IF r = "falha_espera" THEN <<"wait_mes_ref">>
                    ELSE EVENTOS_PERIODO \o
                         (IF EhNumero(valor) THEN <<"fill_valor">> ELSE <<>>))
                   \o CapturaDeTela
             /\ formulario' = IF r = "falha_espera" THEN formulario
                              ELSE FormularioComPeriodo(formulario, mes, ano)
             /\ TratarExcecao(msg, MOTIVO_PADRAO_FORMULARIO, capturaOk)
    /\ UNCHANGED <<lista_dados, retorno, encerramentos, iniciados, fechados>>
    /\ UNCHANGED <<erro_captcha, temporarios, solver>>
    /\ UNCHANGED varsEntrada

\* the item completed every step: ies_sucesso.append(ie)
ConcluirItem ==
    /\ ies_sucesso' = RegistrarSucesso(ies_sucesso, ItemAtual.ie)
    /\ lancamentos' = Lancar
    /\ ProximoItem
    /\ UNCHANGED <<ies_erro, excecao>>

\* mutant: a page without captcha image fails the step
RetornoSemCaptchaFalso ==
    FALSE

\* `return True` of the handler of img.wait_for: no captcha on the page
RetornoSemCaptcha ==
    TRUE

\* mutant: the coroutine goes on without the result of the worker
SolverRetornouSemEsperar ==
    TRUE

\* `await asyncio.to_thread(...)`: the coroutine resumes when the worker ended
SolverRetornou ==
    solver.estado = "terminou"

\* `return False` of _resolver_e_preencher_captcha and `if not ok_captcha`
FalharCaptcha ==
    FalharItem(ItemAtual.ie, MOTIVO_FALHA_CAPTCHA)

\* Passo 4: _resolver_e_preencher_captcha() up to the call of the worker,
\* `if not ok_captcha`, and the handler of the step
Passo4(Msgs) ==
    /\ pc = "passo4"
    /\ \/ \* the captcha image does not show up: the step returns True
          /\ log' = log \o <<"wait_captcha">>
          /\ IF RetornoSemCaptcha THEN ConcluirItem ELSE FalharCaptcha
          /\ UNCHANGED <<e, erro_captcha, temporarios, solver>>
       \/ \* the temporary file cannot be created: the exception leaves the step
          \E msg \in Msgs, capturaOk \in BOOLEAN :
             /\ log' = log \o <<"wait_captcha">> \o CapturaDeTela
             /\ TratarExcecao(msg, MOTIVO_PADRAO_CAPTCHA, capturaOk)
             /\ UNCHANGED <<erro_captcha, temporarios, solver>>
       \/ \* the screenshot of the image raises: caught inside the step, which
          \* removes the file and returns False
          /\ log' = log \o <<"wait_captcha", "screenshot_captcha">>
          /\ temporarios' = Remover(CriarTemporario(temporarios))
          /\ erro_captcha' = TRUE
          /\ FalharCaptcha
          /\ UNCHANGED <<e, solver>>
       \/ \* the image is saved and resolver_imagem starts in the worker thread
          /\ log' = log \o <<"wait_captcha", "screenshot_captcha", "resolver_imagem">>
          /\ temporarios' = CriarTemporario(temporarios)
          /\ solver' = [estado |-> "executando", resposta |-> NULO, texto |-> NULO]
          /\ pc' = "solver"
          /\ UNCHANGED <<indice, ies_sucesso, ies_erro, e, excecao, lancamentos,
                         erro_captcha>>
    /\ UNCHANGED <<lista_dados, retorno, encerramentos, iniciados, fechados,
                   formulario>>
    /\ UNCHANGED varsEntrada

\* the worker thread: resolver_imagem gets the answer of the service and
\* returns, or raises
TerminarResolverImagem ==
    /\ solver.estado = "executando"
    /\ \/ \E resposta \in RespostasDoSolver :
             solver' = [estado |-> "terminou", resposta |-> resposta,
                        texto |-> ResolverImagem(resposta)]
       \/ solver' = [estado |-> "terminou", resposta |-> NULO,
                     texto |-> EXCECAO_DO_SOLVER]
    /\ UNCHANGED <<lista_dados, pc, indice, ies_sucesso, ies_erro, e, excecao,
                   retorno, log, encerramentos, iniciados, fechados, formulario,
                   lancamentos, erro_captcha, temporarios>>
    /\ UNCHANGED varsEntrada

\* Passo 4, after the await of the worker: `if not texto`, the two fills,
\* the inner handler and the finally of _resolver_e_preencher_captcha
RetomarPasso4 ==
    /\ pc = "solver"
    /\ SolverRetornou
    /\ temporarios' = Remover(temporarios)
    /\ \/ \* the worker raised: caught inside the step, which returns False
          /\ solver.texto.t = "raise"
          /\ erro_captcha' = TRUE
          /\ FalharCaptcha
          /\ UNCHANGED <<log, formulario>>
       \/ \* no text from the solver: the step returns False
          /\ solver.texto.t = "None"
          /\ FalharCaptcha
          /\ UNCHANGED <<log, formulario, erro_captcha>>
       \/ \* the input is cleared and filled with at most MAXLEN_CAPTCHA
          \* characters; an exception of a fill is caught inside the step
          /\ solver.texto.t = "str"
          /\ \E r \in {"ok", "falha_limpar", "falha_fill"} :
                /\ log' = log \o (IF r = "falha_limpar" THEN <<"fill_captcha">>
                                  ELSE <<"fill_captcha", "fill_captcha">>)
                /\ IF r = "ok"
                   THEN /\ formulario' = [formulario EXCEPT !.captcha =
                                             Fatia(solver.texto.s, MAXLEN_CAPTCHA)]
                        /\ ConcluirItem
                        /\ UNCHANGED erro_captcha
                   ELSE /\ erro_captcha' = TRUE
                        /\ FalharCaptcha
                        /\ UNCHANGED formulario
    /\ UNCHANGED <<lista_dados, e, retorno, encerramentos, iniciados, fechados,
                   solver>>
    /\ UNCHANGED varsEntrada

\* the task is cancelled while suspended in an await of the try block:
\* CancelledError is not an Exception, no handler of the loop catches it;
\* the finally of the captcha step removes its file on the way out
Cancelar ==
    /\ pc \in {"iniciar", "acessar", "recarga", "passo1", "passo2", "passo3",
               "passo4", "solver"}
    /\ Propagar("CancelledError")
    /\ temporarios' = IF pc = "solver" THEN Remover(temporarios) ELSE temporarios
    /\ UNCHANGED <<lista_dados, indice, ies_sucesso, ies_erro, e, retorno, log,
                   encerramentos, iniciados, fechados, formulario, lancamentos>>
    /\ UNCHANGED <<erro_captcha, solver>>
    /\ UNCHANGED varsEntrada

\* resources closed by _encerrar_browser when closing `falha` raises
FechadosAte(falha) ==
    LET pos(r) == CHOOSE k \in 1..Len(RECURSOS) : RECURSOS[k] = r
    IN  { r \in iniciados : falha = "nenhuma" \/ pos(r) < pos(falha) }

\* finally: await self._encerrar_browser(), then return or re-raise
EncerrarBrowser ==
    /\ pc = "finally"
    /\ encerramentos' = encerramentos + 1
    /\ \E falha \in {"nenhuma"} \cup iniciados :
          /\ fechados' = FechadosAte(falha)
          /\ excecao' = IF falha = "nenhuma" THEN excecao ELSE "Exception"
          /\ pc' = Desfecho(excecao')
          /\ retorno' = IF pc' = "retornou"
                        THEN [t |-> "tuple", sucesso |-> ies_sucesso, erro |-> ies_erro]
                        ELSE retorno
    /\ UNCHANGED <<lista_dados, indice, ies_sucesso, ies_erro, e, log, iniciados,
                   formulario, lancamentos>>
    /\ UNCHANGED <<erro_captcha, temporarios, solver>>
    /\ UNCHANGED varsEntrada

Fluxo(Msgs) ==
    \/ IniciarBrowser
    \/ AcessarPaginaInicial
    \/ PreCheck
    \/ FimDoLaco
    \/ Recarregar
    \/ Passo1
    \/ Passo2(Msgs)
    \/ Passo3(Msgs)
    \/ Passo4(Msgs)
    \/ TerminarResolverImagem
    \/ RetomarPasso4
    \/ Cancelar
    \/ EncerrarBrowser

Next ==
    Fluxo(MensagensLote)

Spec ==
    Init /\ [][Next]_vars

(***************************************************************************)
(* Batches with at most one processed item, over every exception message   *)
(***************************************************************************)
\* the item passes every pre-check of the loop
Processavel(item) ==
    /\ PeriodoConversivel(item)
    /\ item.ie # <<>>
    /\ item.ie_digitos # <<>>
    /\ ~ValorTotalInvalido(item.valor_normal)

ListasDeUmProcessado ==
    { l \in ListasAte(MaxItens) :
        Cardinality({ k \in 1..Len(l) : Processavel(l[k]) }) <= 1 }

InitMotivo ==
    /\ InitGuiOciosa
    /\ InitFluxo(ListasDeUmProcessado)
    /\ InitExcelOcioso
    /\ InitConfigCarregada

NextMotivo ==
    Fluxo(Mensagens)

SpecMotivo ==
    InitMotivo /\ [][NextMotivo]_vars

(***************************************************************************)
(* Batches with one processed item, over every reference period           *)
(***************************************************************************)
ListasPorPeriodo ==
    { antes \o <<Item(IE_A, IeApenasDigitos(IE_A), Num(100000), Num(mes), Num(ano))>> :
        antes \in {<<>>, <<Item(IE_B, IeApenasDigitos(IE_B), NULO, Num(1), Num(2026))>>},
        mes \in 1..12, ano \in ANO_MINIMO..ANO_MAXIMO }

InitFormulario ==
    /\ InitGuiOciosa
    /\ InitFluxo(ListasPorPeriodo)
    /\ InitExcelOcioso
    /\ InitConfigCarregada

SpecFormulario ==
    InitFormulario /\ [][Next]_vars

(***************************************************************************)
(* obter_dados_para_dae over identifier cells                              *)
(***************************************************************************)
RECURSIVE SeqsAte(_, _)
SeqsAte(S, n) ==
    IF n = 0 THEN {<<>>}
    ELSE LET menores == SeqsAte(S, n - 1)
         IN  menores \cup { Append(q, c) : q \in menores, c \in S }

TextosIE ==
    { p \o Repetir("7", k) \o q :
        p \in SeqsAte({" ", ".", "5"}, MaxPrefixoIE),
        k \in 0..(DIGITOS_IE_CE + FolgaDigitos),
        q \in {<<>>, <<"-">>, <<"-", "3">>} }

CelulasIE ==
    {NULO}
    \cup { Num(n) : n \in {0, 61, 123456789, 1234567890} }
    \cup { Str(s) : s \in TextosIE }

NOME_COLUNA_IE ==
    <<"I", "N", "S", "C", ".", "E", "S", "T", "A", "D", "U", "A", "L">>

NOME_COLUNA_NORMAL ==
    <<"N", "O", "R", "M", "A", "L">>

NOME_COLUNA_TOTAL ==
    <<"T", "O", "T", "A", "L">>

\* an extracted row of a sheet with the columns INSC.ESTADUAL and TOTAL
LinhaDe(ie, total) ==
    (NOME_COLUNA_IE :> ie) @@ (NOME_COLUNA_TOTAL :> total)

Linhas ==
    { LinhaDe(c, v) : c \in CelulasIE, v \in {NULO, Num(0), Num(100000)} }

\* rows of a few kinds: with and without identifier, with and without amount
LinhasCurtas ==
    { LinhaDe(Str(IE_A), Num(100000)),
      LinhaDe(Str(IE_B), NULO),
      LinhaDe(NULO, Num(100000)),
      LinhaDe(Str(<<" ">>), Num(0)) }

\* nome_para_indice of a header row with the given names
MapaDe(nomes) ==
    [k \in 1..Len(nomes) |-> [nome |-> nomes[k], indice |-> k - 1]]

MAPA_PADRAO ==
    MapaDe(<<NOME_COLUNA_IE, NOME_COLUNA_TOTAL>>)

Mapas ==
    { MAPA_PADRAO,
      MapaDe(<<<<"F", "I", "L", "I", "A", "L">>, NOME_COLUNA_TOTAL>>),
      MapaDe(<<NOME_COLUNA_IE, NOME_COLUNA_NORMAL>>) }

Periodos ==
    { Par(mes, ano) : mes \in {1, 12}, ano \in {ANO_MINIMO, ANO_MAXIMO} }

PeriodosIncompletos ==
    { [mes_ref |-> NULO, ano_ref |-> Num(2026)],
      [mes_ref |-> Num(1), ano_ref |-> NULO],
      SEM_PERIODO }

\* executar_fluxo_por_ie has not been called
InitFluxoOcioso ==
    /\ lista_dados = <<>>
    /\ pc = "ocioso"
    /\ indice = 1
    /\ ies_sucesso = <<>>
    /\ ies_erro = <<>>
    /\ e = NULO
    /\ excecao = "nenhuma"
    /\ retorno = NULO
    /\ log = <<>>
    /\ encerramentos = 0
    /\ iniciados = {}
    /\ fechados = {}
    /\ formulario = FormularioVazio
    /\ lancamentos = <<>>
    /\ erro_captcha = FALSE
    /\ temporarios = <<>>
    /\ solver = SOLVER_OCIOSO

\* the arguments of a call of obter_dados_para_dae
InitExcel ==
    /\ InitGuiOciosa
    /\ planilha = <<>>
    /\ extracao = "ok"
    /\ \/ /\ linhas \in { <<r>> : r \in Linhas }
          /\ nome_para_indice = MAPA_PADRAO
          /\ periodo \in Periodos
       \/ /\ linhas \in SeqsAte(LinhasCurtas, MaxLinhas)
          /\ nome_para_indice \in Mapas
          /\ periodo \in Periodos \cup PeriodosIncompletos
    /\ resultado = NULO
    /\ InitConfigCarregada
    /\ InitFluxoOcioso

\* obter_dados_para_dae(linhas, nome_para_indice, mes_ref, ano_ref) called
\* with what the extraction returned
ObterDadosParaDae ==
    /\ extracao = "ok"
    /\ resultado = NULO
    /\ resultado' = DadosParaDae(linhas, nome_para_indice, periodo)
    /\ UNCHANGED <<planilha, extracao, linhas, nome_para_indice, periodo>>
    /\ UNCHANGED varsConfig
    /\ UNCHANGED varsFluxo
    /\ UNCHANGED varsGui

\* ie_apenas_digitos(ie) called on the text of the identifier cell as it is
ChamarIeApenasDigitos ==
    /\ extracao = "ok"
    /\ resultado = NULO
    /\ linhas # <<>>
    /\ Obter(linhas[1], NOME_COLUNA_IE).t = "str"
    /\ resultado' = [t |-> "str", arg |-> linhas[1][NOME_COLUNA_IE].s,
                     s |-> IeApenasDigitos(linhas[1][NOME_COLUNA_IE].s)]
    /\ UNCHANGED <<planilha, extracao, linhas, nome_para_indice, periodo>>
    /\ UNCHANGED varsConfig
    /\ UNCHANGED varsFluxo
    /\ UNCHANGED varsGui

NextExcel ==
    \/ ObterDadosParaDae
    \/ ChamarIeApenasDigitos

SpecExcel ==
    InitExcel /\ [][NextExcel]_vars

(***************************************************************************)
(* extrair_todos_os_dados over sheets                                      *)
(***************************************************************************)
TITULO ==
    <<"A", "P", "U", "R", "A", "Ç", "Ã", "O", " ", "D", "E", " ", "I", "C", "M", "S", " ", "C", "E", "A", "R", "A">>

\* the title row: the title text and, next to it, the period cell
LinhaTitulo(celula) ==
    <<Str(TITULO), celula>>

CABECALHO_PADRAO ==
    <<Str(NOME_COLUNA_IE), Str(NOME_COLUNA_NORMAL), Str(NOME_COLUNA_TOTAL)>>

\* a header whose identifier column is the second one
CABECALHO_IE_SEGUNDA ==
    <<Str(<<"N", "o", "m", "e">>), Str(<<"I", ".", "E", ".">>), Str(NOME_COLUNA_TOTAL)>>

LinhasDeDados ==
    { <<Str(IE_A), Num(10), Num(1000)>>,
      <<Num(7), Str(IE_B), Num(0)>>,
      <<NULO, NULO, NULO>>,
      <<Str(<<"T", "o", "t", "a", "l", " ", "G", "e", "r", "a", "l">>), Num(10), Num(1000)>>,
      <<Str(<<" ", "c", "e", "a", "r", "a", " ">>), Str(IE_C), NULO>>,
      <<Str(<<"S", "u", "b", "t", "o", "t", "a", "l">>), Str(<<"T", "O", "T", "A", "L">>), NULO>>,
      <<Str(<<"C", "E", "A", "R", "Á">>), Str(<<"x">>), Num(5)>> }

PlanilhasDeDados ==
    { <<LinhaTitulo(Str(<<"0", "1", "/", "2", "0", "2", "6">>)), cab>> \o dados :
        cab \in {CABECALHO_PADRAO, CABECALHO_IE_SEGUNDA},
        dados \in SeqsAte(LinhasDeDados, MaxLinhas) }

CelulasDePeriodo ==
    { Str(<<"1", "/", "1", "/", "2", "0", "2", "6">>), Str(<<"j", "a", "n", "-", "2", "6">>), Str(<<"j", "a", "n", "/", "2", "6">>),
      Data(2026, 3, 15), Num(46096),
      Str(<<"0", "1", "/", "2", "0", "2", "6">>), Str(<<" ", "D", "e", "z", " ", "9", "9", " ">>), Str(<<"1", "5", "/", "0", "3", "/", "2", "0", "2", "6">>),
      Str(<<"f", "e", "v", "-", "4", "0">>), Str(<<"1", "3", "/", "2", "0", "2", "6">>), Str(<<"2", "0", "2", "6", "-", "0", "3", "-", "1", "5">>),
      Str(<<"1", "2", ".", "1", "9", "9", "4">>), Str(<<"j", "a", "n", "e", "i", "r", "o">>), Str(<<" ">>), NULO,
      Data(2031, 1, 1), Data(1995, 12, 31), Num(2000), Num(34699), Num(34700),
      Num(47848), Num(47849), Num(100000), Dec(46096500) }

PlanilhasDePeriodo ==
    { antes \o <<LinhaTitulo(c), CABECALHO_PADRAO,
                  <<Str(IE_A), Num(10), Num(1000)>>,
                  <<Str(<<"T", "O", "T", "A", "L">>), Num(10), Num(1000)>>>> :
        antes \in {<<>>, <<<<NULO, NULO>>>>}, c \in CelulasDePeriodo }

Caixas ==
    {"como", "alta"}

AplicarCaixa(caixa, s) ==
    IF caixa = "alta" THEN Upper(s) ELSE s

TextosDeCabecalho ==
    { <<"I", "n", "s", "c", ".", "E", "s", "t", "a", "d", "u", "a", "l">>, <<"I", "N", "S", "C", " ", "E", "S", "T", "A", "D", "U", "A", "L">>, <<"i", "n", "s", "c", "r", "i", "ç", "ã", "o", " ", "e", "s", "t", "a", "d", "u", "a", "l">> }
    \cup
    { AplicarCaixa(caixa, inicio \o par[1] \o meio \o par[2] \o fim) :
        caixa \in Caixas,
        inicio \in {<<>>, <<" ">>},
        par \in { <<<<"i", "n", "s", "c">>, <<"e", "s", "t", "a", "d", "u", "a", "l">>>>,
                   <<<<"I", "n", "s", "c", "r", "i", "ç", "ã", "o">>, <<"E", "s", "t", "a", "d", "u", "a", "l">>>>,
                   <<<<"i", "n", "s", "c", "r", "i", "c", "a", "o">>, <<"e", "s", "t", "a", "d", "u", "a", "l">>>>,
                   <<<<"i", "n", "s", "c", "r", "i", "ç", "a", "o">>, <<"é", "s", "t", "a", "d", "u", "a", "l">>>>,
                   <<<<"i">>, <<"e">>>>,
                   <<<<"e", "s", "t", "a", "d", "u", "a", "l">>, <<"i", "n", "s", "c">>>>,
                   <<<<"t", "o", "t", "a", "l">>, <<"g", "e", "r", "a", "l">>>> },
        meio \in {<<>>, <<" ">>, <<".">>, <<".", " ">>, <<" ", " ">>, <<"-">>},
        fim \in {<<>>, <<".">>, <<" ">>} }

PlanilhasDeCabecalho ==
    { <<LinhaTitulo(Str(<<"0", "1", "/", "2", "0", "2", "6">>)),
        <<Str(texto), Str(NOME_COLUNA_TOTAL)>>,
        <<Str(IE_A), Num(1000)>>>> :
        texto \in TextosDeCabecalho }

InitPlanilha ==
    /\ InitGuiOciosa
    /\ planilha \in PlanilhasDeDados \cup PlanilhasDePeriodo \cup PlanilhasDeCabecalho
    /\ extracao = "nenhuma"
    /\ linhas = <<>>
    /\ nome_para_indice = <<>>
    /\ periodo = SEM_PERIODO
    /\ resultado = NULO
    /\ InitConfigCarregada
    /\ InitFluxoOcioso

\* gui_app: extrair_todos_os_dados(caminho) on an existing file whose active
\* sheet is `planilha`; the four results are kept when it returns
ExtrairTodosOsDados ==
    /\ extracao = "nenhuma"
    /\ \E r \in {ExtrairDaPlanilha(planilha)} :
           IF r.t = "tuple"
           THEN /\ extracao' = "ok"
                /\ linhas' = r.linhas
                /\ nome_para_indice' = r.nome_para_indice
                /\ periodo' = r.periodo
           ELSE /\ extracao' = r.tipo
                /\ UNCHANGED <<linhas, nome_para_indice, periodo>>
    /\ UNCHANGED <<planilha, resultado>>
    /\ UNCHANGED varsConfig
    /\ UNCHANGED varsFluxo
    /\ UNCHANGED varsGui

NextPlanilha ==
    \/ ExtrairTodosOsDados
    \/ ObterDadosParaDae

SpecPlanilha ==
    InitPlanilha /\ [][NextPlanilha]_vars

(***************************************************************************)
(* The program: configuration, sheet, batch                                *)
(***************************************************************************)
\* values of os.getenv("ANTI_CAPTCHA_API_KEY") after load_dotenv()
Ambientes ==
    { NULO, Str(<<>>), Str(<<" ">>), Str(<<" ", "\t">>), Str(<<"k">>),
      Str(<<" ", "k", "1", " ">>) }

\* the module configuracoes before its first import
CONFIGURACOES_NAO_IMPORTADAS ==
    [estado |-> "nao_importado", ANTI_CAPTCHA_API_KEY |-> NULO]

LINHA_VAZIA ==
    <<NULO, NULO, NULO>>

\* the row of totals that follows the data rows
LINHA_TOTAL ==
    <<Str(NOME_COLUNA_TOTAL), Num(1500), Num(1000)>>

\* a sheet with the title in row 2, the header in row 5, three data rows
\* with the given cells of the TOTAL column, and the row of totals
PlanilhaDoLote(totais) ==
    <<LINHA_VAZIA,
      <<Str(TITULO), Str(<<"0", "1", "/", "2", "0", "2", "6">>), NULO>>,
      LINHA_VAZIA,
      LINHA_VAZIA,
      CABECALHO_PADRAO,
      <<Str(IE_A), Num(500), totais[1]>>,
      <<Str(IE_B), Num(500), totais[2]>>,
      <<Str(IE_C), Num(500), totais[3]>>,
      LINHA_TOTAL>>

\* TOTAL columns with one amount, one zero and one empty cell
TotaisDoLote ==
    { totais \in [1..3 -> {Num(1000), Num(0), NULO}] :
        \A j, k \in 1..3 : j # k => totais[j] # totais[k] }

\* cells of the TOTAL column holding an amount as text or as number
CelulasDeQuantia ==
    { Str(<<"1", "2", "7", "7", ",", "3", "9">>), Str(<<"1", "2", "7", "7", ".", "3", "9">>), Dec(1277390), Dec(1277395),
      Str(<<" ", "1", "2", "7", "7", ",", "3", "9", "5", " ">>), Dec(125), Str(<<"0", ",", "3", "7", "5">>), Str(<<"1", ".", "2", "7", "7", ",", "3", "9">>) }

TotaisDeQuantia ==
    { <<c, NULO, NULO>> : c \in CelulasDeQuantia }

\* TOTAL columns with texts that float() rejects around an amount
TotaisSemNumero ==
    { <<Str(<<"1", ".", "2", "7", "7", ",", "3", "9">>), Num(1000), Str(<<"a", "b", "c">>)>>,
      <<Num(1000), Str(<<"R", "$", " ", "1", "0">>), Num(2000)>> }

PlanilhasDoPrograma ==
    { PlanilhaDoLote(totais) :
        totais \in TotaisDoLote \cup TotaisDeQuantia \cup TotaisSemNumero }

InitPrograma ==
    /\ InitGuiOciosa
    /\ ambiente \in Ambientes
    /\ configuracoes = CONFIGURACOES_NAO_IMPORTADAS
    /\ planilha \in PlanilhasDoPrograma
    /\ extracao = "nenhuma"
    /\ linhas = <<>>
    /\ nome_para_indice = <<>>
    /\ periodo = SEM_PERIODO
    /\ resultado = NULO
    /\ InitFluxoOcioso

\* `from sefaz_ce import configuracoes`: the module body runs once, at the
\* start of the program
CarregarConfiguracoes ==
    /\ configuracoes.estado = "nao_importado"
    /\ configuracoes' = ConfiguracoesDe(ambiente)
    /\ UNCHANGED ambiente
    /\ UNCHANGED varsExcel
    /\ UNCHANGED varsFluxo
    /\ UNCHANGED varsGui

\* automacao.executar_fluxo_por_ie(lista_dados) called with the list that
\* obter_dados_para_dae returned
ExecutarFluxoPorIe ==
    /\ pc = "ocioso"
    /\ resultado.t = "list"
    /\ lista_dados' = resultado.itens
    /\ pc' = "iniciar"
    /\ lancamentos' = [k \in 1..Len(resultado.itens) |-> 0]
    /\ UNCHANGED <<indice, ies_sucesso, ies_erro, e, excecao, retorno, log,
                   encerramentos, iniciados, fechados, formulario, erro_captcha,
                   temporarios, solver>>
    /\ UNCHANGED varsEntrada

\* lista_executaveis of _ao_executar_todas
RECURSIVE Executaveis(_)
Executaveis(lista) ==
    IF lista = <<>> THEN <<>>
    ELSE (IF ValorTotalInvalido(Head(lista).valor_normal) THEN <<>>
          ELSE <<Head(lista)>>) \o Executaveis(Tail(lista))

\* self._lista_dados of AppFiliais: the items of the loaded sheet
ListaDados ==
    IF resultado.t = "list" THEN resultado.itens ELSE <<>>

\* mutant: a batch is started whether or not another one is running
PodeIniciarSempre(em_execucao, lista) ==
    lista # <<>>

\* `if self._em_execucao or not lista: return`, the first statement of
\* _iniciar_execucao_com_lista and of _ao_executar_todas
PodeIniciar(em_execucao, lista) ==
    ~em_execucao /\ lista # <<>>

\* the rest of both handlers: the flag is set, the buttons are disabled and
\* the daemon thread is started; it runs _executar_lote_em_background(lista),
\* which builds a new AutomacaoConsultaDAE and calls executar_fluxo_por_ie
IniciarThread(g, lista) ==
    /\ gui' = [g EXCEPT !.em_execucao = TRUE, !.botoes = "disabled",
                        !.threads = @ + 1, !.recusada = FALSE]
    /\ lista_dados' = lista
    /\ pc' = "iniciar"
    /\ indice' = 1
    /\ ies_sucesso' = <<>>
    /\ ies_erro' = <<>>
    /\ e' = NULO
    /\ excecao' = "nenhuma"
    /\ retorno' = NULO
    /\ log' = <<>>
    /\ encerramentos' = 0
    /\ iniciados' = {}
    /\ fechados' = {}
    /\ formulario' = FormularioVazio
    /\ lancamentos' = [k \in 1..Len(lista) |-> 0]
    /\ erro_captcha' = FALSE
    /\ temporarios' = <<>>
    /\ solver' = SOLVER_OCIOSO

\* AppFiliais._ao_executar_todas, the command of the button "executar todas"
\* (a disabled button runs no command)
AoExecutarTodas ==
    /\ gui.botoes = "normal"
    /\ IF PodeIniciar(gui.em_execucao, ListaDados)
          /\ Executaveis(ListaDados) # <<>>
       THEN IniciarThread(gui, Executaveis(ListaDados))
       ELSE UNCHANGED <<varsFluxo, varsGui>>
    /\ UNCHANGED <<varsExcel, varsConfig>>

\* AppFiliais._ao_abrir_selecao_ies, the command of the button "escolher":
\* one more JanelaSelecaoIEs over the loaded items
AoAbrirSelecaoIes ==
    /\ gui.botoes = "normal"
    /\ gui.janelas < MaxJanelas
    /\ gui' = IF ListaDados = <<>> THEN gui
              ELSE [gui EXCEPT !.janelas = @ + 1]
    /\ UNCHANGED <<varsFluxo, varsExcel, varsConfig>>

\* [item for item, var in self._vars if var.get()]
Marcados(itens, marcas) ==
    LET F[k \in 0..Len(itens)] ==
            IF k = 0 THEN <<>>
            ELSE F[k - 1] \o (IF marcas[k] THEN <<itens[k]>> ELSE <<>>)
    IN  F[Len(itens)]

\* AppFiliais._iniciar_execucao_com_lista(lista_selecionada), called by a
\* selection window after it destroyed itself (g: the windows left)
IniciarExecucaoComLista(g, lista_selecionada) ==
    IF PodeIniciar(g.em_execucao, lista_selecionada)
    THEN IniciarThread(g, lista_selecionada)
    ELSE /\ gui' = [g EXCEPT !.recusada = g.em_execucao]
         /\ UNCHANGED varsFluxo

\* JanelaSelecaoIEs._ao_executar_selecionadas of one of the open windows;
\* only the executable items have a checkbox
AoExecutarSelecionadas ==
    /\ gui.janelas > 0
    /\ \E marcas \in [1..Len(Executaveis(ListaDados)) -> BOOLEAN] :
          IF Marcados(Executaveis(ListaDados), marcas) = <<>>
          THEN UNCHANGED <<varsFluxo, varsGui>>
          ELSE IniciarExecucaoComLista(
                   [gui EXCEPT !.janelas = @ - 1],
                   Marcados(Executaveis(ListaDados), marcas))
    /\ UNCHANGED <<varsExcel, varsConfig>>

\* asyncio.run(_rodar()) in the background thread: the steps of
\* executar_fluxo_por_ie; nothing cancels the task of a worker thread
FluxoDaThread(Msgs) ==
    \/ IniciarBrowser
    \/ AcessarPaginaInicial
    \/ PreCheck
    \/ FimDoLaco
    \/ Recarregar
    \/ Passo1
    \/ Passo2(Msgs)
    \/ Passo3(Msgs)
    \/ Passo4(Msgs)
    \/ TerminarResolverImagem
    \/ RetomarPasso4
    \/ EncerrarBrowser

\* the end of _executar_lote_em_background: when asyncio.run returned,
\* result_callback queues _finalizar_execucao with self.after(0, ...); when
\* it raised, the exception ends the thread at that line
TerminarThread ==
    /\ gui.threads > 0
    /\ pc \in {"retornou", "propagou"}
    /\ gui' = [gui EXCEPT !.threads = @ - 1,
                          !.pendentes = IF pc = "retornou" THEN @ + 1 ELSE @]
    /\ lista_dados' = <<>>
    /\ pc' = "ocioso"
    /\ indice' = 1
    /\ ies_sucesso' = <<>>
    /\ ies_erro' = <<>>
    /\ e' = NULO
    /\ excecao' = "nenhuma"
    /\ retorno' = NULO
    /\ log' = <<>>
    /\ encerramentos' = 0
    /\ iniciados' = {}
    /\ fechados' = {}
    /\ formulario' = FormularioVazio
    /\ lancamentos' = <<>>
    /\ erro_captcha' = FALSE
    /\ temporarios' = <<>>
    /\ solver' = SOLVER_OCIOSO
    /\ UNCHANGED <<varsExcel, varsConfig>>

\* AppFiliais._finalizar_execucao, run by the main loop for a queued call
FinalizarExecucao ==
    /\ gui.pendentes > 0
    /\ gui' = [gui EXCEPT !.em_execucao = FALSE, !.botoes = "normal",
                          !.pendentes = @ - 1]
    /\ UNCHANGED <<varsFluxo, varsExcel, varsConfig>>

\* everything but the import needs the names of configuracoes: the modules
\* gui_app and automacao_sefaz_ce import it before defining anything
NextPrograma ==
    \/ CarregarConfiguracoes
    \/ /\ configuracoes.estado = "importado"
       /\ \/ ExtrairTodosOsDados
          \/ ObterDadosParaDae
          \/ ExecutarFluxoPorIe
          \/ pc = "ocioso" /\ AoExecutarTodas
          \/ Fluxo(MensagensLote)

SpecPrograma ==
    InitPrograma /\ [][NextPrograma]_vars

(***************************************************************************)
(* gui_app: the main window, its selection windows and the background      *)
(* thread of a batch                                                       *)
(***************************************************************************)
\* the sheets loaded into the window: two executable items and one without
\* amount, or no executable item at all
PlanilhasDaGui ==
    { PlanilhaDoLote(<<Num(1000), Num(2000), NULO>>),
      PlanilhaDoLote(<<NULO, Num(0), NULO>>) }

InitGui ==
    /\ InitGuiOciosa
    /\ planilha \in PlanilhasDaGui
    /\ extracao = "nenhuma"
    /\ linhas = <<>>
    /\ nome_para_indice = <<>>
    /\ periodo = SEM_PERIODO
    /\ resultado = NULO
    /\ InitConfigCarregada
    /\ InitFluxoOcioso

NextGui ==
    \/ ExtrairTodosOsDados
    \/ ObterDadosParaDae
    \/ AoExecutarTodas
    \/ AoAbrirSelecaoIes
    \/ AoExecutarSelecionadas
    \/ FluxoDaThread(MensagensLote)
    \/ TerminarThread
    \/ FinalizarExecucao

SpecGui ==
    InitGui /\ [][NextGui]_vars

\* the event loop of the thread runs the coroutine while it can take a
\* step, the thread function runs to its end, and the main loop of the
\* window runs the calls queued with after(); the user owes nothing
SpecGuiJusta ==
    /\ SpecGui
    /\ WF_vars(FluxoDaThread(MensagensLote))
    /\ WF_vars(TerminarThread)
    /\ WF_vars(FinalizarExecucao)

(***************************************************************************)
(* executar_fluxo_por_ie on lists that mix items stopped by each pre-check *)
(* with items that go through the steps                                    *)
(***************************************************************************)
ItensDeEtapas ==
    { Item(IE_A, IeApenasDigitos(IE_A), Num(100000), Num(1), Num(2026)),
      Item(IE_B, IeApenasDigitos(IE_B), NULO, Num(1), Num(2026)),
      Item(IE_C, IeApenasDigitos(IE_C), Num(0), Num(12), Num(2025)),
      Item(IE_C, IeApenasDigitos(IE_C), Str(<<"1", "2", ",", "5">>), Num(1), Num(2026)),
      Item(IE_A, IeApenasDigitos(IE_A), Num(100000), Num(1), NULO),
      Item(IE_B, <<>>, Num(100000), Num(1), Num(2026)),
      Item(<<>>, <<>>, Num(100000), NULO, Num(2026)) }

InitEtapas ==
    /\ InitGuiOciosa
    /\ InitFluxo(UNION { [1..k -> ItensDeEtapas] : k \in 0..MaxItens })
    /\ InitExcelOcioso
    /\ InitConfigCarregada

SpecEtapas ==
    InitEtapas /\ [][Fluxo(MensagensLote)]_vars

(***************************************************************************)
(* extrair_todos_os_dados over sheets with mixed header rows, header rows  *)
(* at the limit of the search, and periods inside and outside the title    *)
(* area                                                                    *)
(***************************************************************************)
\* header cells: blank, identifier names, a repeated text, and texts that
\* look like the names the mapping generates
CelulasDeNome ==
    { NULO,
      Str(<<"I", ".", "E", ".">>),
      Str(<<" ", "i", "e", " ">>),
      Str(<<"A">>),
      Str(<<"A", "_", "3">>),
      Str(<<"c", "o", "l", "_", "2">>),
      Str(<<"c", "o", "l", "_", "2", "_", "2">>) }

CabecalhosMistos ==
    SeqsAte(CelulasDeNome, MaxColunas) \ {<<>>}

\* a data row of n numeric cells
LinhaNumerica(n) ==
    [k \in 1..n |-> Num(60 + k)]

\* a row of n cells whose first cell is the text TOTAL
LinhaTotalNaPrimeira(n) ==
    [k \in 1..n |-> IF k = 1 THEN Str(NOME_COLUNA_TOTAL) ELSE Num(70 + k)]

PERIODO_DO_TITULO ==
    Str(<<"0", "1", "/", "2", "0", "2", "6">>)

PlanilhasDeNomes ==
    { <<LinhaTitulo(PERIODO_DO_TITULO), h, LinhaNumerica(Len(h)),
        LinhaTotalNaPrimeira(Len(h)), LinhaNumerica(Len(h))>> :
        h \in CabecalhosMistos }

\* rows and columns at the edges of the title area, inside and outside
LinhasDaGrade ==
    {1, 2, MAX_LINHAS_BUSCA_PERIODO, MAX_LINHAS_BUSCA_PERIODO + 1}

ColunasDaGrade ==
    {1, 2, MAX_COLUNAS_BUSCA_PERIODO, MAX_COLUNAS_BUSCA_PERIODO + 1}

PERIODO_A ==
    Str(<<"0", "1", "/", "2", "0", "2", "6">>)

PERIODO_B ==
    Str(<<"f", "e", "v", "-", "2", "7">>)

\* a sheet of empty cells with the title text in its first cell, PERIODO_A at
\* position a and PERIODO_B at position b, followed by header and data
Grade(a, b) ==
    [r \in 1..(MAX_LINHAS_BUSCA_PERIODO + 1) |->
        [c \in 1..(MAX_COLUNAS_BUSCA_PERIODO + 1) |->
            IF <<r, c>> = a THEN PERIODO_A
            ELSE IF <<r, c>> = b THEN PERIODO_B
            ELSE IF <<r, c>> = <<1, 1>> THEN Str(TITULO)
            ELSE NULO]]
    \o <<CABECALHO_PADRAO, <<Str(IE_A), Num(10), Num(1000)>>>>

PlanilhasDeGrade ==
    { Grade(a, b) : a \in LinhasDaGrade \X ColunasDaGrade,
                    b \in LinhasDaGrade \X ColunasDaGrade }

\* rows at which the first header row stands: at the top, and around the limit
\* of the search
LinhasDoCabecalho ==
    {1, 2, MAX_LINHAS_BUSCA_CABECALHO - 1, MAX_LINHAS_BUSCA_CABECALHO,
     MAX_LINHAS_BUSCA_CABECALHO + 1, MAX_LINHAS_BUSCA_CABECALHO + 2}

\* a header row that also holds the period, for sheets without a title row
CABECALHO_PRIMEIRO ==
    <<Str(NOME_COLUNA_IE), Str(NOME_COLUNA_TOTAL), PERIODO_A>>

\* another header row, with the identifier in the second column
CABECALHO_SEGUNDO ==
    <<Str(<<"F", "i", "l", "i", "a", "l">>), Str(<<"I", "E">>)>>

\* r - 1 rows without identifier name, the first of them the title row
Preenchimento(r) ==
    [k \in 1..(r - 1) |-> IF k = 1 THEN LinhaTitulo(PERIODO_A) ELSE <<NULO, NULO>>]

\* sheets with a header row at row r, a second header row later or none, and
\* sheets whose only header row is the second kind
PlanilhasDeBusca ==
    { Preenchimento(r) \o <<primeiro>> \o meio \o segundo
                       \o <<(<<Str(IE_A), Num(1000)>>)>> :
        r \in LinhasDoCabecalho,
        primeiro \in {CABECALHO_PRIMEIRO, CABECALHO_SEGUNDO, <<NULO, NULO>>},
        meio \in {<<>>, <<(<<Str(IE_B), Num(500)>>)>>},
        segundo \in {<<>>, <<CABECALHO_SEGUNDO>>, <<CABECALHO_PRIMEIRO>>} }

\* sheets with the title in row 1, with or without the period, the header in
\* row 2 and one data row whose TOTAL cell is an amount
PlanilhasDeTitulo ==
    { <<<<Str(TITULO), t, NULO>>,
        CABECALHO_PADRAO,
        <<Str(IE_A), Num(10), q>>>> :
        t \in {NULO, PERIODO_A},
        q \in {Num(1000), Num(2000), Num(45000), Num(100000)} }

PlanilhasDaFolha ==
    PlanilhasDeNomes \cup PlanilhasDeGrade \cup PlanilhasDeBusca
        \cup PlanilhasDeTitulo

InitFolha ==
    /\ InitGuiOciosa
    /\ planilha \in PlanilhasDaFolha
    /\ extracao = "nenhuma"
    /\ linhas = <<>>
    /\ nome_para_indice = <<>>
    /\ periodo = SEM_PERIODO
    /\ resultado = NULO
    /\ InitConfigCarregada
    /\ InitFluxoOcioso

SpecFolha ==
    InitFolha /\ [][NextPlanilha]_vars

(***************************************************************************)
(* Vocabulary of the properties                                            *)
(***************************************************************************)
Ultimo(q) ==
    q[Len(q)]

QuantiaInvalida(v) ==
    \/ v.t = "None"
    \/ v.t = "num" /\ v.v = 0
    \/ v.t = "str" /\ Lower(Strip(v.s)) \in {<<>>, TEXTO_NULL}

\* the item passes the period and identifier checks and is dropped for its
\* amount
Pulado(item) ==
    /\ item.mes_ref.t = "num"
    /\ item.ano_ref.t = "num"
    /\ item.ie # <<>>
    /\ item.ie_digitos # <<>>
    /\ QuantiaInvalida(item.valor_normal)

Posicoes ==
    1..Len(lista_dados)

NaoPulados ==
    { k \in Posicoes : ~Pulado(lista_dados[k]) }

\* the identifier under which an item is entered in the ledger
Registrado(ie) ==
    IF ie = <<>> THEN IE_VAZIO ELSE ie

IdsSucesso ==
    { ies_sucesso[k] : k \in 1..Len(ies_sucesso) }

IdsErro ==
    { ies_erro[k][1] : k \in 1..Len(ies_erro) }

Terminou ==
    pc \in {"retornou", "propagou"}

\* C1: when executar_fluxo_por_ie returns normally, every item that was not
\* skipped for its amount has exactly one ledger entry and every skipped item
\* has none, so len(succeeded) + len(failed) is the number of non-skipped
\* items.
T_C1 ==
    pc = "retornou" =>
        /\ \A k \in Posicoes :
              lancamentos[k] = IF Pulado(lista_dados[k]) THEN 0 ELSE 1
        /\ Len(retorno.sucesso) + Len(retorno.erro) = Cardinality(NaoPulados)

\* C1 witness: a returned batch with a skipped item next to a recorded one
W_C1 ==
    /\ pc = "retornou"
    /\ \E k \in Posicoes : Pulado(lista_dados[k])
    /\ Len(retorno.sucesso) + Len(retorno.erro) = 1

\* C2 as stated: an item whose amount is absent, zero or blank/"null" is
\* recorded in neither succeeded nor failed, whatever its other fields are.
CE_C2 ==
    \A k \in Posicoes :
        QuantiaInvalida(lista_dados[k].valor_normal) => lancamentos[k] = 0

\* C2 amended: an item whose amount is absent, zero or blank/"null", whose
\* month and year convert to integers and whose identifier and digits are
\* non-empty, is recorded in neither succeeded nor failed.
T_C2 ==
    \A k \in Posicoes :
        Pulado(lista_dados[k]) =>
            /\ lancamentos[k] = 0
            /\ Len(lista_dados) = 1 => (ies_sucesso = <<>> /\ ies_erro = <<>>)

\* C2 witness: a zero amount item has been handled by the loop
W_C2 ==
    \E k \in Posicoes :
        /\ k < indice
        /\ Pulado(lista_dados[k])
        /\ lista_dados[k].valor_normal = Num(0)

\* C3 as stated: in the returned ledger no identifier is in both succeeded and
\* failed, also when an identifier occurs in several items, and the identifier
\* of every non-skipped item (as the ledger records it) is in at least one of
\* them.
CE_C3 ==
    pc = "retornou" =>
        /\ IdsSucesso \cap IdsErro = {}
        /\ \A k \in NaoPulados :
              Registrado(lista_dados[k].ie) \in IdsSucesso \cup IdsErro

\* C3 amended: in the returned ledger an identifier that is recorded for at
\* most one non-skipped item is never in both succeeded and failed, and every
\* non-skipped item's identifier (the placeholder "(vazio)" for an empty one)
\* is in at least one of them.
T_C3 ==
    pc = "retornou" =>
        /\ \A id \in IdsSucesso \cap IdsErro :
              Cardinality({ k \in NaoPulados :
                              Registrado(lista_dados[k].ie) = id }) > 1
        /\ \A k \in NaoPulados :
              Registrado(lista_dados[k].ie) \in IdsSucesso \cup IdsErro

\* C3 witness: a returned ledger with one identifier succeeded and another,
\* empty one, failed under the placeholder
W_C3 ==
    /\ pc = "retornou"
    /\ Len(ies_sucesso) = 1
    /\ Len(ies_erro) = 1
    /\ ies_erro[1][1] = IE_VAZIO

\* C4 as stated: a failure confined to one identifier, failures inside the
\* step's failure handling included, never aborts the batch: an Exception
\* reaches the finally block only from the browser start or from the
\* navigation to the entry page.
CE_C4 ==
    (pc = "finally" /\ excecao = "Exception") =>
        (log = <<>> \/ Ultimo(log) \in {"goto", "wait_idle"})

CLIQUES ==
    {"click_avancar", "click_preencher_dae"}

\* page actions that neither click nor navigate
PASSIVOS ==
    {"wait_idle", "wait_campo_ie", "wait_botao_avancar", "wait_receita",
     "wait_mes_ref", "wait_captcha", "fill_ie", "fill_mes_ref", "fill_ano_ref",
     "fill_dia_pag", "fill_mes_pag", "fill_ano_pag", "fill_valor",
     "fill_captcha", "screenshot_captcha", "screenshot_erro"}

\* C5: on every exit path (return, exception of the browser start or of a
\* navigation, exception leaving the loop, cancellation) _encerrar_browser
\* is invoked exactly once, and no action of the batch follows its
\* invocation.
T_C5 ==
    /\ [](/\ encerramentos <= 1
          /\ Terminou => encerramentos = 1
          /\ encerramentos = 1 => Terminou)
    /\ [][encerramentos >= 1 => log' = log]_vars

\* C5 witness: a cancelled batch that had acted on the page and was torn down
W_C5 ==
    /\ pc = "propagou"
    /\ excecao = "CancelledError"
    /\ encerramentos = 1
    /\ log # <<>>

\* position of the last click or navigation before position k of the log
AnteriorAtivo(k) ==
    LET ativos == { i \in 1..(k - 1) : log[i] \in CLIQUES \cup {"goto"} }
    IN  IF ativos = {} THEN 0
        ELSE CHOOSE i \in ativos : \A j \in ativos : j <= i

\* C6: the payment form is never submitted: after the 'fill form' click the
\* page actions are waits, fills and screenshots until the entry page is
\* loaded again, and the only click that follows is the 'advance' click of
\* a later item, on the reloaded entry page.
T_C6 ==
    \A k \in 1..Len(log) :
        /\ log[k] \in CLIQUES \cup PASSIVOS
                      \cup {"goto", "select_receita", "sleep", "resolver_imagem"}
        /\ log[k] = "click_avancar" =>
              (AnteriorAtivo(k) > 0 /\ log[AnteriorAtivo(k)] = "goto")
        /\ log[k] = "click_preencher_dae" =>
              (AnteriorAtivo(k) > 0 /\ log[AnteriorAtivo(k)] = "click_avancar")
        /\ (log[k] = "select_receita" /\ AnteriorAtivo(k) > 0) =>
              log[AnteriorAtivo(k)] = "click_avancar"

\* C6 witness: a form was opened and a later item was entered afterwards
W_C6 ==
    \E i, k \in 1..Len(log) :
        /\ i < k
        /\ log[i] = "click_preencher_dae"
        /\ log[k] = "click_avancar"

\* an Exception raised by the browser start, by a navigation to the entry
\* page, or by the teardown
FalhaDeSessao ==
    /\ excecao = "Exception"
    /\ log = <<>> \/ Ultimo(log) \in {"goto", "wait_idle"}

\* C7: when the browser start or the navigation to the entry page fails (at
\* the start or at the reload before a later item) the exception reaches the
\* caller after the teardown has run, no further item is processed and no
\* ledger is returned.
T_C7 ==
    /\ [](FalhaDeSessao =>
             /\ retorno = NULO
             /\ pc \in {"finally", "propagou"}
             /\ pc = "propagou" <=> encerramentos = 1)
    /\ [][FalhaDeSessao =>
             /\ pc' = "propagou"
             /\ UNCHANGED <<log, indice, ies_sucesso, ies_erro, lancamentos>>]_vars

\* C7 witness: the reload before the second item failed after the first item
\* had succeeded, and the exception reached the caller
W_C7 ==
    /\ pc = "propagou"
    /\ excecao = "Exception"
    /\ indice = 2
    /\ Len(ies_sucesso) = 1
    /\ Ultimo(log) = "goto"
    /\ retorno = NULO

\* C8 as stated: every stored reason has at most 80 characters, and when the
\* first line of a step exception's message has more than 80 characters the
\* stored reason is its first 77 characters followed by "...".
CE_C8 ==
    /\ \A k \in 1..Len(ies_erro) : Len(ies_erro[k][2]) <= 80
    /\ (e.t = "str" /\ pc = "laco" /\ Len(PrimeiraLinha(e.s)) > 80) =>
          Ultimo(ies_erro)[2] = SubSeq(PrimeiraLinha(e.s), 1, 77) \o <<".", ".", ".">>

\* C8 amended: every stored reason has at most 80 characters, and when the
\* first line of a step exception's message, stripped of leading and trailing
\* whitespace, has more than 80 characters the stored reason is the first 77
\* characters of the stripped line followed by "...".
T_C8 ==
    /\ \A k \in 1..Len(ies_erro) : Len(ies_erro[k][2]) <= 80
    /\ (e.t = "str" /\ pc = "laco" /\ Len(Strip(PrimeiraLinha(e.s))) > 80) =>
          Ultimo(ies_erro)[2] =
              SubSeq(Strip(PrimeiraLinha(e.s)), 1, 77) \o <<".", ".", ".">>

\* C8 witness: a stored reason cut from a first line that is longer than 80
\* characters after stripping and carries surrounding whitespace
W_C8 ==
    /\ e.t = "str"
    /\ pc = "laco"
    /\ Len(Strip(PrimeiraLinha(e.s))) > 80
    /\ Len(PrimeiraLinha(e.s)) > Len(Strip(PrimeiraLinha(e.s)))
    /\ Len(Ultimo(ies_erro)[2]) = 80

\* C9: for a reference period (m, y) with m in 1..12 the payment date written
\* into the form is day 20, month m+1 of year y when m < 12 and month 1 of
\* year y+1 when m = 12; the written month is in 1..12; 01/2026 gives
\* 20/02/2026 and 12/2025 gives 20/01/2026.
T_C9 ==
    (lista_dados # <<>> /\ formulario.mes_pag # <<>>) =>
        LET m == Ultimo(lista_dados).mes_ref.v
            y == Ultimo(lista_dados).ano_ref.v
        IN  /\ formulario.dia_pag = <<"2", "0">>
            /\ Len(formulario.mes_pag) = 2
            /\ ValorDecimal(formulario.mes_pag) \in 1..12
            /\ m < 12 => /\ ValorDecimal(formulario.mes_pag) = m + 1
                         /\ ValorDecimal(formulario.ano_pag) = y
            /\ m = 12 => /\ ValorDecimal(formulario.mes_pag) = 1
                         /\ ValorDecimal(formulario.ano_pag) = y + 1
            /\ (m = 1 /\ y = 2026) =>
                  /\ formulario.mes_pag = <<"0", "2">>
                  /\ formulario.ano_pag = <<"2", "0", "2", "6">>
            /\ (m = 12 /\ y = 2025) =>
                  /\ formulario.mes_pag = <<"0", "1">>
                  /\ formulario.ano_pag = <<"2", "0", "2", "6">>

\* C9 witness: the form filled for the reference period 12/2025
W_C9 ==
    /\ lista_dados # <<>>
    /\ Ultimo(lista_dados).mes_ref = Num(12)
    /\ Ultimo(lista_dados).ano_ref = Num(2025)
    /\ formulario.dia_pag = <<"2", "0">>
    /\ formulario.mes_pag = <<"0", "1">>
    /\ formulario.ano_pag = <<"2", "0", "2", "6">>

\* the 9 characters expected for an identifier text
NoveDigitos(ie) ==
    LET d == SoDigitos(ie)
    IN  IF Len(d) < 9 THEN Repetir("0", 9 - Len(d)) \o d ELSE SubSeq(d, 1, 9)

\* C10: for a non-empty identifier ie_apenas_digitos returns exactly 9
\* characters, all digits: the digits of the identifier, left-padded with
\* zeros when fewer than 9 and cut to the first 9 when more; every item
\* returned by obter_dados_para_dae has ie_digitos of length 9.
T_C10 ==
    /\ (resultado.t = "str" /\ resultado.arg # <<>>) =>
          /\ Len(resultado.s) = 9
          /\ \A k \in 1..Len(resultado.s) : EhDigito(resultado.s[k])
          /\ resultado.s = NoveDigitos(resultado.arg)
    /\ resultado.t = "list" =>
          \A k \in 1..Len(resultado.itens) :
              /\ Len(resultado.itens[k].ie_digitos) = 9
              /\ resultado.itens[k].ie_digitos = NoveDigitos(resultado.itens[k].ie)

\* C10 witness: an item built from an identifier with more than 9 digits and
\* punctuation
W_C10 ==
    /\ resultado.t = "list"
    /\ resultado.itens # <<>>
    /\ Len(SoDigitos(resultado.itens[1].ie)) > 9
    /\ Len(resultado.itens[1].ie) > Len(SoDigitos(resultado.itens[1].ie))
    /\ Len(resultado.itens[1].ie_digitos) = 9

\* the row of the sheet that holds the title text
LinhaDoTitulo ==
    CHOOSE r \in 1..Len(planilha) :
        /\ planilha[r][1] = Str(TITULO)
        /\ \A k \in 1..(r - 1) : planilha[k][1] # Str(TITULO)

CabecalhoDaPlanilha ==
    planilha[LinhaDoTitulo + 1]

DadosDaPlanilha ==
    SubSeq(planilha, LinhaDoTitulo + 2, Len(planilha))

\* the letters of MAIUSCULAS and MINUSCULAS without case and diacritics
SEM_ACENTO ==
    <<"a", "b", "c", "d", "e", "f", "g", "h", "i", "j", "k", "l", "m", "n", "o", "p", "q", "r", "s", "t", "u", "v", "w", "x", "y", "z", "c", "a", "o", "a", "e", "i", "o", "u", "a", "e", "o", "a">>

\* a letter without its case and its diacritic
LetraBase(c) ==
    IF \E k \in 1..Len(SEM_ACENTO) : c \in {MAIUSCULAS[k], MINUSCULAS[k]}
    THEN SEM_ACENTO[CHOOSE k \in 1..Len(SEM_ACENTO) :
                        c \in {MAIUSCULAS[k], MINUSCULAS[k]}]
    ELSE c

\* the text without periods, letter case and diacritics; whitespace trimmed
\* and runs of it reduced to one space
RECURSIVE SemCaixaAcentoPonto(_)
SemCaixaAcentoPonto(s) ==
    IF s = <<>> THEN <<>>
    ELSE IF Head(s) = "." THEN SemCaixaAcentoPonto(Tail(s))
    ELSE <<LetraBase(Head(s))>> \o SemCaixaAcentoPonto(Tail(s))

RECURSIVE UmEspaco(_)
UmEspaco(s) ==
    IF Len(s) < 2 THEN s
    ELSE IF s[1] = " " /\ s[2] = " " THEN UmEspaco(Tail(s))
    ELSE <<s[1]>> \o UmEspaco(Tail(s))

Dobrado(s) ==
    Strip(UmEspaco(SemCaixaAcentoPonto(s)))

\* the folded forms of the identifier header
FORMAS_IE ==
    { <<"i", "n", "s", "c", "e", "s", "t", "a", "d", "u", "a", "l">>, <<"i", "n", "s", "c", " ", "e", "s", "t", "a", "d", "u", "a", "l">>, <<"i", "e">>,
      <<"i", "n", "s", "c", "r", "i", "c", "a", "o", " ", "e", "s", "t", "a", "d", "u", "a", "l">> }

\* the column of the header that names the identifier
ColunaIdentificador ==
    CHOOSE k \in 1..Len(CabecalhoDaPlanilha) :
        Dobrado(CabecalhoDaPlanilha[k].s) \in FORMAS_IE

\* the cell value, trimmed and upper-cased, starts with TOTAL or is CEARA
Terminadora(celula) ==
    /\ celula.t = "str"
    /\ LET v == Upper(Strip(celula.s))
       IN  \/ Len(v) >= 5 /\ SubSeq(v, 1, 5) = <<"T", "O", "T", "A", "L">>
           \/ v = <<"C", "E", "A", "R", "A">>

\* a cell value as a row carries it: texts trimmed, blank texts absent
Aparada(celula) ==
    IF celula.t # "str" THEN celula
    ELSE IF Strip(celula.s) = <<>> THEN NULO
    ELSE Str(Strip(celula.s))

\* C11: the rows returned by extrair_todos_os_dados are the rows between the
\* header and the first row whose identifier-column value, trimmed and
\* upper-cased, starts with "TOTAL" or equals "CEARA", in order; that row
\* and every row after it are left out.
T_C11 ==
    (extracao = "ok" /\ Len(CabecalhoDaPlanilha) = 3) =>
        LET dados == DadosDaPlanilha
            col == ColunaIdentificador
            fins == { k \in 1..Len(dados) : Terminadora(dados[k][col]) }
            n == IF fins = {} THEN Len(dados)
                 ELSE (CHOOSE k \in fins : \A j \in fins : k <= j) - 1
        IN  /\ Len(linhas) = n
            /\ \A k \in 1..n : \A j \in 1..3 :
                  LET nome == CabecalhoDaPlanilha[j].s
                  IN  IF j = col
                      THEN (linhas[k][nome] = NULO) <=> (dados[k][j] = NULO)
                      ELSE linhas[k][nome] = Aparada(dados[k][j])

\* C11 witness: one row was returned from a sheet whose second data row is
\* "Total Geral" and whose third data row has a valid identifier
W_C11 ==
    /\ extracao = "ok"
    /\ CabecalhoDaPlanilha = CABECALHO_PADRAO
    /\ Len(DadosDaPlanilha) = 3
    /\ DadosDaPlanilha[2][1] = Str(<<"T", "o", "t", "a", "l", " ", "G", "e", "r", "a", "l">>)
    /\ DadosDaPlanilha[3][1] = Str(IE_A)
    /\ Len(linhas) = 1

\* the cell next to the title text
CelulaDoPeriodo ==
    planilha[LinhaDoTitulo][2]

\* the cells of rows 1..12, columns 1..30
CelulasDaAreaTitulo ==
    { planilha[r][c] : r \in 1..Menor(Len(planilha), 12), c \in 1..2 }
    \cup { planilha[r][3] : r \in { k \in 1..Menor(Len(planilha), 12) :
                                        Len(planilha[k]) = 3 } }

\* C12: the period cells "1/1/2026", "jan-26" and "jan/26" give (1, 2026),
\* the date 2026-03-15 and its Excel serial number give (3, 2026); a sheet
\* with no cell in rows 1..12, columns 1..30 that parses to a period fails
\* the extraction, and an extracted period is always the one of a cell.
T_C12 ==
    extracao # "nenhuma" =>
        /\ CelulaDoPeriodo \in { Str(<<"1", "/", "1", "/", "2", "0", "2", "6">>), Str(<<"j", "a", "n", "-", "2", "6">>),
                                  Str(<<"j", "a", "n", "/", "2", "6">>) }
              => (extracao = "ok" /\ periodo = Par(1, 2026))
        /\ CelulaDoPeriodo \in { Data(2026, 3, 15), Num(46096) }
              => (extracao = "ok" /\ periodo = Par(3, 2026))
        /\ (\A c \in CelulasDaAreaTitulo : ParsearCelulaPeriodo(c) = SEM_PERIODO)
              => (extracao = "ValueError" /\ periodo = SEM_PERIODO)
        /\ extracao = "ok"
              => /\ periodo # SEM_PERIODO
                 /\ \E c \in CelulasDaAreaTitulo : ParsearCelulaPeriodo(c) = periodo

\* C12 witness: the period was read from the Excel serial number of
\* 2026-03-15
W_C12 ==
    /\ extracao = "ok"
    /\ CelulaDoPeriodo = Num(46096)
    /\ periodo = Par(3, 2026)

\* C13: a header text is recognised as the identifier column exactly when
\* its text without letter case, diacritics and periods, with whitespace
\* trimmed and collapsed, is one of the identifier names, so texts that
\* differ only in case, diacritics or periods are classified alike;
\* "Insc.Estadual", "INSC ESTADUAL" and "inscrição estadual" are recognised.
T_C13 ==
    (extracao # "nenhuma" /\ Len(CabecalhoDaPlanilha) = 2) =>
        LET texto == CabecalhoDaPlanilha[1].s
        IN  /\ (extracao = "ok") <=> (Dobrado(texto) \in FORMAS_IE)
            /\ extracao = "ok" =>
                  /\ ObterChaveIe(nome_para_indice) = Str(Strip(texto))
                  /\ linhas[1][Strip(texto)] = Str(NormalizarIeZerosEsquerda(IE_A))
            /\ texto \in { <<"I", "n", "s", "c", ".", "E", "s", "t", "a", "d", "u", "a", "l">>, <<"I", "N", "S", "C", " ", "E", "S", "T", "A", "D", "U", "A", "L">>,
                            <<"i", "n", "s", "c", "r", "i", "ç", "ã", "o", " ", "e", "s", "t", "a", "d", "u", "a", "l">> }
                  => extracao = "ok"

\* C13 witness: the header "INSCRIÇAO.  ÉSTADUAL " was recognised
W_C13 ==
    /\ extracao = "ok"
    /\ Len(CabecalhoDaPlanilha) = 2
    /\ CabecalhoDaPlanilha[1] = Str(<<"I", "N", "S", "C", "R", "I", "Ç", "A", "O", " ", "É", "S", "T", "A", "D", "U", "A", "L", ".">>)

(***************************************************************************)
(* Properties of the program from sheet to batch                           *)
(***************************************************************************)
\* number of occurrences of x in the sequence q
Ocorrencias(q, x) ==
    Cardinality({ k \in 1..Len(q) : q[k] = x })

\* the sheet has one amount, one zero and one empty cell in the TOTAL column
PlanilhaDeLote ==
    planilha \in { PlanilhaDoLote(totais) : totais \in TotaisDoLote }

\* the cell of the TOTAL column of the k-th data row
TotalDaLinha(k) ==
    planilha[5 + k][3]

\* the identifiers of the three data rows as the extraction returns them
IDS_DO_LOTE ==
    <<NormalizarIeZerosEsquerda(IE_A), NormalizarIeZerosEsquerda(IE_B),
      NormalizarIeZerosEsquerda(IE_C)>>

\* executar_fluxo_por_ie was called with the whole list of the sheet
LoteInteiro ==
    /\ resultado.t = "list"
    /\ pc # "ocioso"
    /\ lista_dados = resultado.itens

\* C14: for a sheet with the title cell "01/2026" in row 2, the header
\* [INSC.ESTADUAL, NORMAL, TOTAL] in row 5, three data rows with identifiers
\* and the TOTAL cells 1000.00, 0 and empty (in any order), and then a
\* "TOTAL" row, the extraction succeeds, obter_dados_para_dae returns exactly
\* three items with mes_ref = 1 and ano_ref = 2026, and executar_fluxo_por_ie
\* on them runs the page steps for one identifier only, the item of the
\* amount 1000.00; the other two get no ledger entry.
T_C14 ==
    PlanilhaDeLote =>
        /\ extracao \in {"nenhuma", "ok"}
        /\ extracao = "ok" => Len(linhas) = 3 /\ periodo = Par(1, 2026)
        /\ resultado # NULO =>
              /\ resultado.t = "list"
              /\ Len(resultado.itens) = 3
              /\ \A k \in 1..3 :
                    /\ resultado.itens[k].ie = IDS_DO_LOTE[k]
                    /\ resultado.itens[k].mes_ref = Num(1)
                    /\ resultado.itens[k].ano_ref = Num(2026)
        /\ LoteInteiro =>
              /\ Ocorrencias(log, "wait_campo_ie") <= 1
              /\ \A k \in 1..3 :
                    TotalDaLinha(k) # Num(1000) => lancamentos[k] = 0
              /\ pc \in {"recarga", "passo1", "passo2", "passo3", "passo4"} =>
                    TotalDaLinha(indice) = Num(1000)
              /\ pc = "retornou" =>
                    /\ Ocorrencias(log, "wait_campo_ie") = 1
                    /\ Len(ies_sucesso) + Len(ies_erro) = 1
                    /\ \A k \in 1..3 :
                          TotalDaLinha(k) = Num(1000) =>
                              /\ lancamentos[k] = 1
                              /\ IDS_DO_LOTE[k] \in IdsSucesso \cup IdsErro

\* C14 witness: the batch of the sheet with the amounts 1000.00, 0 and empty
\* returned, with the first identifier as the only success
W_C14 ==
    /\ planilha = PlanilhaDoLote(<<Num(1000), Num(0), NULO>>)
    /\ LoteInteiro
    /\ Len(lista_dados) = 3
    /\ pc = "retornou"
    /\ ies_sucesso = <<IDS_DO_LOTE[1]>>
    /\ ies_erro = <<>>
    /\ Ocorrencias(log, "fill_captcha") = 2

\* positions of the header names recognised as the identifier
NomesDeIdentificador ==
    { k \in 1..Len(nome_para_indice) :
        Dobrado(nome_para_indice[k].nome) \in FORMAS_IE }

\* the identifier cell of the k-th row given to obter_dados_para_dae
IdentificadorDaLinha(k) ==
    LET j == CHOOSE j \in NomesDeIdentificador :
                 \A i \in NomesDeIdentificador : j <= i
        nome == nome_para_indice[j].nome
    IN  IF nome \in DOMAIN linhas[k] THEN Aparada(linhas[k][nome]) ELSE NULO

\* the positions of the rows with an identifier, in row order
ComIdentificador ==
    SelectSeq([k \in 1..Len(linhas) |-> k],
              LAMBDA k : IdentificadorDaLinha(k) # NULO)

\* the text of an identifier cell
TextoDoIdentificador(celula) ==
    IF celula.t = "num" THEN StrInt(celula.v) ELSE celula.s

\* C15: obter_dados_para_dae raises, returning no items, exactly when
\* mes_ref or ano_ref is absent or no header name is an identifier name;
\* otherwise it returns one item for each row whose identifier is not empty,
\* in row order, none for the other rows, and every item carries the mes_ref
\* and ano_ref of the call.
T_C15 ==
    resultado.t \in {"raise", "list"} =>
        /\ (resultado = VALUE_ERROR) <=>
              \/ periodo.mes_ref = NULO
              \/ periodo.ano_ref = NULO
              \/ NomesDeIdentificador = {}
        /\ resultado.t = "list" =>
              /\ Len(resultado.itens) = Len(ComIdentificador)
              /\ \A j \in 1..Len(ComIdentificador) :
                    LET celula == IdentificadorDaLinha(ComIdentificador[j])
                        item == resultado.itens[j]
                    IN  /\ item.ie = NormalizarIeZerosEsquerda(
                                         TextoDoIdentificador(celula))
                        /\ item.mes_ref = periodo.mes_ref
                        /\ item.ano_ref = periodo.ano_ref

\* C15 witness: of three rows the second has no identifier; the items of
\* the first and of the third were returned, in that order
W_C15 ==
    /\ resultado.t = "list"
    /\ Len(linhas) = 3
    /\ ComIdentificador = <<1, 3>>
    /\ Len(resultado.itens) = 2
    /\ resultado.itens[1].ie = NormalizarIeZerosEsquerda(IE_A)
    /\ resultado.itens[2].ie = IE_B
    /\ resultado.itens[2].mes_ref = Num(12)

\* the environment holds no key, or one made of whitespace only
ChaveEmBranco ==
    \/ ambiente = NULO
    \/ \A k \in 1..Len(ambiente.s) : EhEspaco(ambiente.s[k])

\* no browser session was started and no batch was begun
NadaExecutado ==
    /\ pc = "ocioso"
    /\ iniciados = {}
    /\ log = <<>>
    /\ lista_dados = <<>>
    /\ ies_sucesso = <<>>
    /\ ies_erro = <<>>
    /\ encerramentos = 0

\* C16: with ANTI_CAPTCHA_API_KEY missing or blank, loading the
\* configuration ends the program (SystemExit) with no browser session
\* started and no item of a batch handled; with a non-blank key the
\* configuration is loaded, holding the key without surrounding whitespace.
T_C16 ==
    /\ configuracoes.estado \in {"nao_importado", "SystemExit", "importado"}
    /\ configuracoes.estado = "SystemExit" => ChaveEmBranco
    /\ configuracoes.estado = "importado" =>
          /\ ~ChaveEmBranco
          /\ configuracoes.ANTI_CAPTCHA_API_KEY.t = "str"
          /\ configuracoes.ANTI_CAPTCHA_API_KEY.s # <<>>
          /\ ~EhEspaco(Head(configuracoes.ANTI_CAPTCHA_API_KEY.s))
    /\ configuracoes.estado # "importado" =>
          /\ NadaExecutado
          /\ extracao = "nenhuma"
          /\ resultado = NULO

\* C16 witness: the key is a blank text and the import ended the program
W_C16 ==
    /\ ambiente = Str(<<" ", "\t">>)
    /\ configuracoes.estado = "SystemExit"
    /\ NadaExecutado

\* the three ways of writing the amount 1277.39 in a cell
FORMAS_DE_1277_39 ==
    { Str(<<"1", "2", "7", "7", ",", "3", "9">>), Str(<<"1", "2", "7", "7", ".", "3", "9">>), Dec(1277390) }

\* digits, a period and exactly two digits
DuasCasas(texto) ==
    /\ Len(texto) >= 4
    /\ texto[Len(texto) - 2] = "."
    /\ \A k \in 1..Len(texto) : k # Len(texto) - 2 => EhDigito(texto[k])

\* the number of hundredths that a text of two decimals denotes
CentavosDoTexto(texto) ==
    ValorDecimal(SubSeq(texto, 1, Len(texto) - 3)
                 \o SubSeq(texto, Len(texto) - 1, Len(texto)))

\* C17: the TOTAL cells "1277,39", "1277.39" and 1277.39 give the same
\* valor_normal; the text written into the amount field is the amount in
\* fixed point with exactly two decimals and "." as separator, the nearest
\* to the amount, "1277.39" for those three cells; the amount 1277.395 is
\* written as "1277.39".
T_C17 ==
    /\ (PlanilhaDeLote \/ resultado.t # "list") \/
          /\ TotalDaLinha(1) \in FORMAS_DE_1277_39 =>
                resultado.itens[1].valor_normal = Dec(1277390)
          /\ TotalDaLinha(1) = Dec(1277395) =>
                resultado.itens[1].valor_normal = Dec(1277395)
    /\ formulario.valor # <<>> =>
          /\ DuasCasas(formulario.valor)
          /\ ~PlanilhaDeLote =>
                /\ TotalDaLinha(1) \in FORMAS_DE_1277_39 \cup {Dec(1277395)} =>
                      formulario.valor = <<"1", "2", "7", "7", ".", "3", "9">>
    /\ pc = "passo4" /\ EhNumero(ItemAtual.valor_normal) =>
          LET diferenca == 10 * CentavosDoTexto(formulario.valor)
                           - Milesimos(ItemAtual.valor_normal)
          IN  diferenca \in -5..5

\* C17 witness: the cell "1277,39" was written into the form as "1277.39"
W_C17 ==
    /\ TotalDaLinha(1) = Str(<<"1", "2", "7", "7", ",", "3", "9">>)
    /\ pc = "passo4"
    /\ ItemAtual.valor_normal = Dec(1277390)
    /\ formulario.valor = <<"1", "2", "7", "7", ".", "3", "9">>

(***************************************************************************)
(* Properties of the order of the steps                                    *)
(***************************************************************************)
\* the positions of the coroutine inside the steps of an item, in order;
\* "solver" is the await of the worker inside the captcha step
PASSOS ==
    <<"passo1", "passo2", "passo3", "passo4", "solver">>

EmPasso(p) ==
    \E k \in 1..Len(PASSOS) : PASSOS[k] = p

NumeroDoPasso(p) ==
    CHOOSE k \in 1..Len(PASSOS) : PASSOS[k] = p

\* the first page action of each step: enter identifier, select receipt,
\* wait for the form, fill the form, resolve the captcha
INICIOS ==
    {"wait_campo_ie", "select_receita", "wait_mes_ref", "fill_mes_ref",
     "wait_captcha"}

\* the page action at position k of the log, "" before its start
Evento(k) ==
    IF k \in 1..Len(log) THEN log[k] ELSE ""

\* every step of the log begins right after the last action of a
\* successful previous step, and at most once per load of the entry page
OrdemNoLog ==
    \A k \in 1..Len(log) :
        /\ log[k] = "wait_campo_ie" =>
              Evento(k - 1) = "wait_idle" /\ Evento(k - 2) = "goto"
        /\ log[k] = "select_receita" => Evento(k - 1) = "wait_receita"
        /\ log[k] = "wait_mes_ref" =>
              Evento(k - 1) = "wait_idle" /\ Evento(k - 2) = "click_preencher_dae"
        /\ log[k] = "fill_mes_ref" => Evento(k - 1) = "wait_mes_ref"
        /\ log[k] = "wait_captcha" => Evento(k - 1) \in {"fill_ano_pag", "fill_valor"}
        /\ log[k] \in INICIOS =>
              \A i \in 1..(k - 1) :
                  log[i] = log[k] => \E j \in (i + 1)..(k - 1) : log[j] = "goto"
        /\ log[k] = "screenshot_erro" => Evento(k + 1) \in {"", "sleep"}

\* C18: for every processed item the steps run in the order enter
\* identifier, select receipt and open form, wait for the form, fill the
\* form, resolve captcha, each at most once and each only after the previous
\* one succeeded; the identifier is appended to ies_sucesso only by the
\* captcha step, when it succeeds; an item that got its failure entry runs
\* no further step.
T_C18 ==
    /\ [](/\ OrdemNoLog
          /\ EmPasso(pc) =>
                /\ indice \in 1..Len(lista_dados)
                /\ lancamentos[indice] = 0
          /\ \A k \in 1..Len(lista_dados) : lancamentos[k] <= 1)
    /\ [][/\ (EmPasso(pc') /\ pc' # pc) =>
               /\ indice' = indice
               /\ IF pc' = "passo1" THEN pc \in {"laco", "recarga"}
                  ELSE /\ EmPasso(pc)
                       /\ NumeroDoPasso(pc') = NumeroDoPasso(pc) + 1
                       /\ ies_erro' = ies_erro
                       /\ excecao' = "nenhuma"
          /\ ies_sucesso' # ies_sucesso =>
                 /\ pc \in {"passo4", "solver"}
                 /\ ies_sucesso' = Append(ies_sucesso, ItemAtual.ie)
                 /\ ies_erro' = ies_erro
                 /\ Ultimo(log') \in {"wait_captcha", "fill_captcha"}
                 /\ indice' = indice + 1
          /\ ies_erro' # ies_erro =>
                 /\ Len(ies_erro') = Len(ies_erro) + 1
                 /\ ies_sucesso' = ies_sucesso
                 /\ pc' = "laco"
                 /\ indice' = indice + 1]_vars

\* C18 witness: a batch returned after one item went through the five
\* steps and another one failed while the form was filled
W_C18 ==
    /\ pc = "retornou"
    /\ Len(ies_sucesso) = 1
    /\ Len(ies_erro) = 1
    /\ ies_erro[1][2] = MOTIVO_PADRAO_FORMULARIO
    /\ Ocorrencias(log, "wait_campo_ie") = 2
    /\ Ocorrencias(log, "fill_mes_ref") = 2
    /\ Ocorrencias(log, "wait_captcha") = 1

(***************************************************************************)
(* Properties of the screenshot of the failure handlers                    *)
(***************************************************************************)
\* C19: the screenshot of a step's failure handling is best-effort: when
\* the capture itself raises, the item still gets its failure entry and the
\* loop goes on, so every screenshot attempt in the log has its entry in
\* ies_erro.
CE_C19 ==
    Ocorrencias(log, "screenshot_erro") <= Len(ies_erro)

\* the item before the current one got a failure entry
EntradaDeFalhaAnterior ==
    /\ pc = "laco"
    /\ indice > 1
    /\ lancamentos[indice - 1] = 1
    /\ ies_erro # <<>>
    /\ Ultimo(ies_erro)[1] = lista_dados[indice - 1].ie

\* C20 as stated: every exception raised during the select-receipt,
\* fill-form or resolve-captcha step, including one raised while the captcha
\* image is captured, the solver is called or the captcha input is filled,
\* leads to a screenshot attempt of the page before the failure entry of the
\* item is appended.
CE_C20 ==
    (EntradaDeFalhaAnterior /\ (erro_captcha \/ e # NULO)) =>
        Ultimo(log) = "screenshot_erro"

\* C20 amended: an exception of the select-receipt or fill-form step, and
\* an exception that leaves the resolve-captcha step, reaches the handler of
\* the step, which attempts a screenshot of the page before anything is
\* appended to ies_erro; an exception raised while the captcha image is
\* captured, the solver is called or the captcha input is filled is caught
\* inside the captcha step: the item fails with the fixed reason "Falha ao
\* resolver ou preencher o captcha" and no screenshot of the page is taken.
T_C20 ==
    [][/\ (e' # NULO /\ e = NULO) =>
             /\ pc \in {"passo2", "passo3", "passo4"}
             /\ ~erro_captcha'
             /\ Ultimo(log') = "screenshot_erro"
             /\ Ocorrencias(log', "screenshot_erro")
                  = Ocorrencias(log, "screenshot_erro") + 1
             /\ ies_erro' # ies_erro =>
                   ies_erro' = Append(ies_erro, <<ItemAtual.ie, Ultimo(ies_erro')[2]>>)
       /\ (erro_captcha' /\ ~erro_captcha) =>
             /\ pc \in {"passo4", "solver"}
             /\ e' = NULO
             /\ Ocorrencias(log', "screenshot_erro")
                  = Ocorrencias(log, "screenshot_erro")
             /\ Ultimo(log') \in {"screenshot_captcha", "resolver_imagem",
                                  "fill_captcha"}
             /\ ies_erro' = Append(ies_erro, <<ItemAtual.ie, MOTIVO_FALHA_CAPTCHA>>)
             /\ pc' = "laco"]_vars

\* C20 witness: the first item failed in a step handler, with a screenshot
\* of the page, and the second one by an exception caught inside the
\* captcha step, without one
W_C20 ==
    /\ EntradaDeFalhaAnterior
    /\ erro_captcha
    /\ Len(ies_erro) = 2
    /\ ies_erro[2][2] = MOTIVO_FALHA_CAPTCHA
    /\ Ocorrencias(log, "screenshot_erro") = 1
    /\ Ultimo(log) = "resolver_imagem"

(***************************************************************************)
(* Properties of the pre-checks of an item                                 *)
(***************************************************************************)
\* the month or the year of the item does not convert to an integer
SemPeriodo(item) ==
    item.mes_ref.t # "num" \/ item.ano_ref.t # "num"

\* the identifier or the digits string of the item is empty
SemIdentificador(item) ==
    item.ie = <<>> \/ item.ie_digitos = <<>>

\* the loop takes the next item of the list
TomaItem ==
    /\ pc = "laco"
    /\ indice \in Posicoes
    /\ <<pc, indice>>' # <<pc, indice>>

\* the only change of the ledger is a failure entry of the current item
\* with the given reason, and no page action is made
SoFalha(motivo) ==
    /\ ies_erro' = Append(ies_erro, <<Registrado(ItemAtual.ie), motivo>>)
    /\ lancamentos' = [lancamentos EXCEPT ![indice] = 1]
    /\ ies_sucesso' = ies_sucesso
    /\ log' = log
    /\ pc' = "laco"
    /\ indice' = indice + 1

\* no step runs, and no sleep or reload is made, for an item that a
\* pre-check rejects, and such an item never gets a second entry
SemEtapasParaRejeitados ==
    /\ (EmPasso(pc) \/ pc = "recarga") =>
          ~SemPeriodo(ItemAtual) /\ ~SemIdentificador(ItemAtual)
    /\ \A k \in Posicoes :
          (SemPeriodo(lista_dados[k]) \/ SemIdentificador(lista_dados[k])) =>
              /\ lancamentos[k] = IF k < indice THEN 1 ELSE 0
              /\ lista_dados[k].ie # <<>> =>
                    Ocorrencias(ies_sucesso, lista_dados[k].ie)
                      <= Cardinality({ j \in Posicoes : j < indice /\ j # k
                                         /\ lista_dados[j].ie = lista_dados[k].ie })

\* C21 as stated: an item whose month or year does not convert gets exactly
\* one failure entry with the reason "period missing", an item whose
\* identifier or digits string is empty gets exactly one with the reason
\* "identifier invalid or empty"; neither is added to succeeded and no page
\* step runs for it.
CE_C21 ==
    [][TomaItem =>
          /\ SemPeriodo(ItemAtual) => SoFalha(MOTIVO_PERIODO_AUSENTE)
          /\ SemIdentificador(ItemAtual) => SoFalha(MOTIVO_IE_INVALIDA)]_vars

\* C21 amended: an item whose month or year does not convert gets exactly
\* one failure entry with the reason "period missing", also when its
\* identifier or digits string is empty; an item whose month and year convert
\* and whose identifier or digits string is empty gets exactly one with the
\* reason "identifier invalid or empty"; neither is added to succeeded and no
\* page step runs for it.
T_C21 ==
    /\ []SemEtapasParaRejeitados
    /\ [][TomaItem =>
             /\ SemPeriodo(ItemAtual) => SoFalha(MOTIVO_PERIODO_AUSENTE)
             /\ (~SemPeriodo(ItemAtual) /\ SemIdentificador(ItemAtual)) =>
                   SoFalha(MOTIVO_IE_INVALIDA)]_vars

\* C21 witness: a returned batch whose first item had neither period nor
\* identifier and whose second one had no digits
W_C21 ==
    /\ pc = "retornou"
    /\ Len(lista_dados) = 2
    /\ SemPeriodo(lista_dados[1]) /\ SemIdentificador(lista_dados[1])
    /\ ~SemPeriodo(lista_dados[2]) /\ SemIdentificador(lista_dados[2])
    /\ retorno.erro = <<<<IE_VAZIO, MOTIVO_PERIODO_AUSENTE>>,
                        <<lista_dados[2].ie, MOTIVO_IE_INVALIDA>>>>
    /\ retorno.sucesso = <<>>
    /\ log = <<"goto", "wait_idle">>

(***************************************************************************)
(* Properties of the delay between items                                   *)
(***************************************************************************)
\* the item passes the three pre-checks: it is processed
Passa(item) ==
    ~SemPeriodo(item) /\ ~SemIdentificador(item) /\ ~QuantiaInvalida(item.valor_normal)

\* the positions of the processed items
Processados ==
    { k \in Posicoes : Passa(lista_dados[k]) }

\* C22 as stated: no delay is made before the first processed item and one
\* before every later processed item, so a returned run with k processed
\* items has made k - 1 delays (none when k = 0).
CE_C22 ==
    pc = "retornou" =>
        Ocorrencias(log, "sleep")
          = IF Processados = {} THEN 0 ELSE Cardinality(Processados) - 1

\* C22 amended: no delay is made before the item at the first position of
\* the list; every processed item at a later position, also when it is the
\* first one that is processed, is preceded by exactly one sleep followed by
\* exactly one reload of the entry page, in that order, before its
\* enter-identifier step; a returned run has made one delay for each
\* processed item that is not at the first position of the list.
T_C22 ==
    /\ [](/\ \A k \in 1..Len(log) : log[k] = "sleep" => Evento(k + 1) = "goto"
          /\ Ocorrencias(log, "sleep")
               <= Cardinality({ k \in Processados : k > 1 /\ k <= indice })
          /\ pc = "retornou" =>
                Ocorrencias(log, "sleep")
                  = Cardinality({ k \in Processados : k > 1 }))
    /\ [][/\ (pc' = "recarga" /\ pc # "recarga") =>
                pc = "laco" /\ indice > 1 /\ Passa(ItemAtual) /\ log' = log
          /\ (pc' = "passo1" /\ pc # "passo1") =>
                /\ Passa(ItemAtual)
                /\ indice' = indice
                /\ IF indice = 1
                   THEN pc = "laco" /\ log' = log /\ Ocorrencias(log, "sleep") = 0
                   ELSE pc = "recarga"
                        /\ log' = log \o <<"sleep", "goto", "wait_idle">>
          /\ Ocorrencias(log', "sleep") # Ocorrencias(log, "sleep") =>
                /\ pc = "recarga"
                /\ Ocorrencias(log', "sleep") = Ocorrencias(log, "sleep") + 1
                /\ Ocorrencias(log', "goto") = Ocorrencias(log, "goto") + 1]_vars

\* C22 witness: a returned batch whose first item was skipped and whose
\* second item, the only processed one, came after a delay and a reload
W_C22 ==
    /\ pc = "retornou"
    /\ Len(lista_dados) = 2
    /\ Processados = {2}
    /\ Ocorrencias(log, "sleep") = 1
    /\ retorno.sucesso = <<lista_dados[2].ie>>
    /\ SubSeq(log, 1, 6)
         = <<"goto", "wait_idle", "sleep", "goto", "wait_idle", "wait_campo_ie">>

(***************************************************************************)
(* Properties of the items that are skipped or rejected                    *)
(***************************************************************************)
\* what the browser session, the page, the worker and the temporary files
\* are
Navegador ==
    <<log, formulario, iniciados, fechados, encerramentos, solver, temporarios>>

\* C23: the handling of an item that is skipped for its amount or rejected
\* by a pre-check makes no browser action: no sleep, no reload, no fill, no
\* click and no screenshot between the end of the previous item and the start
\* of the next one, and the page is left as it was.
T_C23 ==
    /\ [](Ocorrencias(log, "wait_campo_ie")
            <= Cardinality({ k \in Processados : k <= indice }))
    /\ [][(TomaItem /\ ~Passa(ItemAtual)) =>
             /\ Navegador' = Navegador
             /\ pc' = "laco"
             /\ indice' = indice + 1
             /\ excecao' = excecao]_vars

\* C23 witness: a zero amount item was skipped and an item without period
\* rejected, and the session has made nothing but the first load of the
\* entry page
W_C23 ==
    /\ Len(lista_dados) = 2
    /\ lista_dados[1].valor_normal = Num(0) /\ Pulado(lista_dados[1])
    /\ SemPeriodo(lista_dados[2])
    /\ indice = 3
    /\ pc = "laco"
    /\ Len(ies_erro) = 1
    /\ log = <<"goto", "wait_idle">>
    /\ formulario = FormularioVazio

(***************************************************************************)
(* Properties of the enter-identifier step                                 *)
(***************************************************************************)
\* the enter-identifier step of the current item ends without success and
\* without a cancellation of the task
Passo1Falha ==
    /\ pc = "passo1"
    /\ pc' \notin {"passo1", "passo2"}
    /\ excecao' # "CancelledError"

\* C24 as stated: in the enter-identifier step a timeout of the wait for the
\* receipt selector gives a failure entry "identifier not found" without a
\* screenshot, any other exception of the step gives a screenshot and then
\* the failure entry; in both cases the item ends in failed, never in
\* succeeded.
CE_C24 ==
    [][Passo1Falha =>
          /\ ies_erro' = Append(ies_erro, <<ItemAtual.ie, MOTIVO_IE_NAO_ENCONTRADA>>)
          /\ ies_sucesso' = ies_sucesso
          /\ pc' = "laco"
          /\ IF Ultimo(log') = "wait_receita"
             THEN Ocorrencias(log', "screenshot_erro")
                    = Ocorrencias(log, "screenshot_erro")
             ELSE /\ Ultimo(log') = "screenshot_erro"
                  /\ Ocorrencias(log', "screenshot_erro")
                       = Ocorrencias(log, "screenshot_erro") + 1]_vars

(***************************************************************************)
(* Properties of the captcha step                                          *)
(***************************************************************************)
\* the captcha step of the current item ends with the wait for the image as
\* its only page action: the image did not become visible
SemImagemDeCaptcha ==
    /\ pc = "passo4"
    /\ log' = Append(log, "wait_captcha")

\* C25: when the captcha image does not become visible within the timeout
\* the captcha step reports success: the solver is not called, no temporary
\* file is created, the captcha input is not filled, and the item, whose
\* earlier steps all succeeded, is appended to ies_sucesso.
T_C25 ==
    /\ [](/\ Len(temporarios) = Ocorrencias(log, "screenshot_captcha")
          /\ pc = "passo4" =>
                /\ Ocorrencias(log, "wait_receita") >= 1
                /\ Ultimo(log) \in {"fill_ano_pag", "fill_valor"}
                /\ lancamentos[indice] = 0)
    /\ [][SemImagemDeCaptcha =>
             /\ ies_sucesso' = Append(ies_sucesso, ItemAtual.ie)
             /\ ies_erro' = ies_erro
             /\ solver' = solver
             /\ temporarios' = temporarios
             /\ formulario' = formulario
             /\ excecao' = "nenhuma"
             /\ pc' = "laco"
             /\ indice' = indice + 1]_vars

\* C25 witness: a batch of one item returned it as succeeded although its
\* form page showed no captcha image: no worker, no file, no captcha text
W_C25 ==
    /\ pc = "retornou"
    /\ Len(lista_dados) = 1
    /\ retorno.sucesso = <<lista_dados[1].ie>>
    /\ retorno.erro = <<>>
    /\ Ultimo(log) = "wait_captcha"
    /\ solver = SOLVER_OCIOSO
    /\ temporarios = <<>>
    /\ formulario.captcha = <<>>
    /\ formulario.valor # <<>>

\* the answer of the recognition service carries no usable text
SemTextoUtil(resposta) ==
    \/ resposta.t = "None"
    \/ resposta.t = "num" /\ resposta.v = 0
    \/ resposta.t = "str" /\ \A k \in 1..Len(resposta.s) : EhEspaco(resposta.s[k])

\* t is s without the white space around it, and is not empty
EhAparo(t, s) ==
    \E i \in 1..Len(s), j \in 1..Len(s) :
       /\ i <= j
       /\ t = SubSeq(s, i, j)
       /\ ~EhEspaco(s[i])
       /\ ~EhEspaco(s[j])
       /\ \A k \in 1..Len(s) : (k < i \/ k > j) => EhEspaco(s[k])

\* the coroutine of the captcha step resumes with what resolver_imagem
\* returned and the step ends
RetomaComRetorno ==
    /\ pc = "solver"
    /\ pc' = "laco"
    /\ solver.texto.t # "raise"

\* C26: with the captcha image present, an answer of the service without
\* usable text (None, 0 or a blank string) becomes None in resolver_imagem,
\* the captcha input is not filled and the item is appended to ies_erro with
\* the captcha-failure reason; any other answer becomes a non-empty string
\* without white space around it, and the captcha input, unless one of its
\* fills raises, receives exactly the first min(MAXLEN_CAPTCHA, length)
\* characters of it.
T_C26 ==
    /\ []((solver.estado = "terminou" /\ solver.texto.t # "raise") =>
             IF SemTextoUtil(solver.resposta)
             THEN solver.texto = NULO
             ELSE /\ solver.texto.t = "str"
                  /\ solver.texto.s # <<>>
                  /\ IF solver.resposta.t = "str"
                     THEN EhAparo(solver.texto.s, solver.resposta.s)
                     ELSE \A k \in 1..Len(solver.texto.s) :
                             EhDigito(solver.texto.s[k]))
    /\ [][RetomaComRetorno =>
             IF SemTextoUtil(solver.resposta)
             THEN /\ log' = log
                  /\ formulario' = formulario
                  /\ ies_erro' = Append(ies_erro,
                                        <<ItemAtual.ie, MOTIVO_FALHA_CAPTCHA>>)
                  /\ ies_sucesso' = ies_sucesso
                  /\ erro_captcha' = erro_captcha
             ELSE \/ /\ erro_captcha'
                     /\ formulario' = formulario
                     /\ ies_sucesso' = ies_sucesso
                  \/ /\ erro_captcha' = erro_captcha
                     /\ Ultimo(log') = "fill_captcha"
                     /\ Len(formulario'.captcha) =
                           (IF Len(solver.texto.s) < MAXLEN_CAPTCHA
                            THEN Len(solver.texto.s) ELSE MAXLEN_CAPTCHA)
                     /\ \A k \in 1..Len(formulario'.captcha) :
                           formulario'.captcha[k] = solver.texto.s[k]
                     /\ ies_sucesso' = Append(ies_sucesso, ItemAtual.ie)
                     /\ ies_erro' = ies_erro]_vars

\* C26 witness: the service answered seven characters, the input holds the
\* first six and the item succeeded
W_C26 ==
    /\ pc = "laco"
    /\ solver.estado = "terminou"
    /\ solver.resposta = Str(<<"a", "b", "c", "d", "e", "f", "g">>)
    /\ formulario.captcha = <<"a", "b", "c", "d", "e", "f">>
    /\ Len(ies_sucesso) = 1
    /\ ~erro_captcha

\* C26 witness of the other case: a blank answer, nothing filled, the item
\* failed with the captcha-failure reason
W_C26_SemTexto ==
    /\ pc = "laco"
    /\ solver.estado = "terminou"
    /\ solver.resposta = Str(<<" ", "\t">>)
    /\ solver.texto = NULO
    /\ formulario.captcha = <<>>
    /\ Ocorrencias(log, "fill_captcha") = 0
    /\ ies_erro = <<<<lista_dados[1].ie, MOTIVO_FALHA_CAPTCHA>>>>
    /\ ~erro_captcha

(***************************************************************************)
(* Properties of the temporary captcha image                               *)
(***************************************************************************)
\* a call of _resolver_e_preencher_captcha is suspended in its try block
\* with its temporary file on disk
ChamadaDeCaptchaAberta ==
    pc = "solver"

ArquivosExistentes ==
    { k \in 1..Len(temporarios) : temporarios[k] = "existe" }

\* C27: every temporary captcha image created by
\* _resolver_e_preencher_captcha is deleted by the time the call ends,
\* whether the captcha was solved and filled, the solver returned nothing,
\* or the screenshot, the solver or a fill raised (or the task was
\* cancelled): outside a call no temporary image exists, during a call only
\* the one of that call, and none survives the batch.
T_C27 ==
    /\ [](IF ChamadaDeCaptchaAberta
          THEN ArquivosExistentes = {Len(temporarios)}
          ELSE ArquivosExistentes = {})
    /\ [][/\ Len(temporarios') >= Len(temporarios)
          /\ \A k \in 1..Len(temporarios) :
                temporarios[k] = "removido" => temporarios'[k] = "removido"
          /\ (pc = "solver" /\ pc' # "solver") =>
                temporarios' = [temporarios EXCEPT ![Len(temporarios)] = "removido"]]_vars

\* C27 witness: a batch of two items ended after two captcha calls, one
\* that filled the input and one that failed; both files are gone
W_C27 ==
    /\ Terminou
    /\ temporarios = <<"removido", "removido">>
    /\ Len(ies_sucesso) = 1
    /\ Len(ies_erro) = 1
    /\ formulario.captcha # <<>>

(***************************************************************************)
(* Properties of the worker of the captcha step                            *)
(***************************************************************************)
\* the call of resolver_imagem in the worker thread has not returned
SolverPendente ==
    solver.estado = "executando"

\* the number of identifiers that entered the enter-identifier step and have
\* no terminal outcome yet
EmVoo ==
    (IF pc = "passo1" THEN 1 ELSE 0)
      + Ocorrencias(log, "wait_campo_ie")
      - Cardinality({ k \in Processados : lancamentos[k] >= 1 })

\* C28: the captcha is solved on a worker thread but the orchestrator awaits
\* it: while the call of the solver is outstanding no page action is made
\* and no other identifier is started, the captcha input is filled only
\* after the solver has returned a text, and at no time are two identifiers
\* between their enter-identifier step and their terminal outcome.
T_C28 ==
    /\ [](/\ EmVoo \in {0, 1}
          /\ EmPasso(pc) => (EmVoo = 1 /\ lancamentos[indice] = 0)
          /\ (~EmPasso(pc) /\ excecao = "nenhuma") => EmVoo = 0
          /\ pc = "solver" => solver.estado \in {"executando", "terminou"}
          /\ (SolverPendente /\ excecao = "nenhuma") => pc = "solver")
    /\ [][/\ SolverPendente =>
                /\ log' = log
                /\ indice' = indice
                /\ formulario' = formulario
                /\ ies_sucesso' = ies_sucesso
                /\ ies_erro' = ies_erro
          /\ Ocorrencias(log', "fill_captcha") > Ocorrencias(log, "fill_captcha") =>
                /\ solver.estado = "terminou"
                /\ solver.texto.t = "str"
                /\ solver' = solver]_vars

\* C28 witness: the second identifier of a batch waits for the worker after
\* the first one, solved by an earlier call of the worker, succeeded
W_C28 ==
    /\ pc = "solver"
    /\ SolverPendente
    /\ indice = 2
    /\ Len(temporarios) = 2
    /\ ies_sucesso = <<lista_dados[1].ie>>
    /\ Ocorrencias(log, "fill_captcha") = 2
    /\ Ocorrencias(log, "resolver_imagem") = 2
    /\ EmVoo = 1

(***************************************************************************)
(* Properties of the teardown of the browser session                       *)
(***************************************************************************)
\* the resources that were started and are not closed
Abertos ==
    iniciados \ fechados

\* C29 as stated: teardown closes every session resource that was started
\* (context, browser, driver) on every exit path, also after a start that
\* failed part-way, and a failure while closing one resource does not keep
\* the remaining ones from being closed: once the call has ended at most the
\* one resource whose close failed is still open.
CE_C29 ==
    Terminou =>
        /\ encerramentos = 1
        /\ fechados \subseteq iniciados
        /\ Cardinality(Abertos) <= 1

\* the part of C29 that the code keeps: a call that returns normally has
\* closed everything it started
TeardownSemFalha ==
    pc = "retornou" => (encerramentos = 1 /\ Abertos = {})

(***************************************************************************)
(* Properties of the amount of the items that reach the form               *)
(***************************************************************************)
\* the fill-form step of the current item ends without an exception
FormularioPreenchido ==
    /\ pc = "passo3"
    /\ pc' = "passo4"

\* C30: within executar_fluxo_por_ie every item that reaches the fill-form
\* step has a present, non-zero amount: the form filler never takes its
\* leave-amount-blank branch in a batch run, and the principal-amount field
\* has been written for every identifier that ends in ies_sucesso.
T_C30 ==
    /\ [](pc \in {"passo3", "passo4", "solver"} =>
             /\ ItemAtual.valor_normal # NULO
             /\ ~QuantiaInvalida(ItemAtual.valor_normal))
    /\ [](pc \in {"passo4", "solver"} =>
             /\ EhNumero(ItemAtual.valor_normal)
             /\ formulario.valor = Fmt2f(Milesimos(ItemAtual.valor_normal))
             /\ formulario.valor # <<>>)
    /\ [][/\ FormularioPreenchido =>
                /\ Ultimo(log') = "fill_valor"
                /\ Ocorrencias(log', "fill_valor") = Ocorrencias(log, "fill_valor") + 1
          /\ ies_sucesso' # ies_sucesso =>
                /\ pc \in {"passo4", "solver"}
                /\ formulario'.valor = Fmt2f(Milesimos(ItemAtual.valor_normal))]_vars

\* C30 witness: of two items the one without amount was skipped before any
\* step and the other one succeeded with its amount in the field
W_C30 ==
    /\ pc = "retornou"
    /\ Len(lista_dados) = 2
    /\ lista_dados[1].valor_normal = NULO
    /\ lista_dados[2].valor_normal = Num(100000)
    /\ retorno.sucesso = <<lista_dados[2].ie>>
    /\ retorno.erro = <<>>
    /\ formulario.valor = Fmt2f(100000000)
    /\ Ocorrencias(log, "fill_valor") = 1
    /\ Ocorrencias(log, "fill_ano_pag") = 1

(***************************************************************************)
(* Properties of the header mapping                                        *)
(***************************************************************************)
\* the row that extraction took as the header
CabecalhoEscolhido ==
    planilha[EncontrarLinhaCabecalho(planilha)]

NomesMapeados ==
    { nome_para_indice[k].nome : k \in 1..Len(nome_para_indice) }

ColunasMapeadas ==
    { nome_para_indice[k].indice : k \in 1..Len(nome_para_indice) }

\* every cell of the header row h has its own name and no column is lost
UmNomePorCelula(h) ==
    /\ Cardinality(NomesMapeados) = Len(h)
    /\ ColunasMapeadas = 0..(Len(h) - 1)

\* no text of the header row h has the form of a generated name
SemNomeGerado(h) ==
    \A k \in 1..Len(h) :
        h[k].t = "str" => \A j \in 1..Len(h[k].s) : h[k].s[j] # "_"

\* C31 as stated: _mapear_cabecalho gives every cell of the header row its
\* own column name: the mapping has as many names as the row has cells, no
\* two cells share a name and no column position is lost, whatever blank
\* cells, repeated texts and texts that look like generated names the row
\* holds.
CE_C31 ==
    extracao = "ok" => UmNomePorCelula(CabecalhoEscolhido)

\* the part of C31 that the code keeps: rows without a text of the form of a
\* generated name keep every column
MapeamentoSemNomeGerado ==
    extracao = "ok" =>
        LET Guarda(h) == SemNomeGerado(h) => UmNomePorCelula(h)
        IN  Guarda(CabecalhoEscolhido)

(***************************************************************************)
(* Properties of the identifier column                                     *)
(***************************************************************************)
\* the cells of the header row h that match the identifier names
CelulasDeIdentificador(h) ==
    { k \in 1..Len(h) : CelulaBateNomeIe(h[k]) }

\* the column tested for the terminator (that of header row h) is the column
\* of the name `chave`, whose values are zero-padded and supply the
\* identifiers: no extracted row holds a terminator under that name
MesmaColuna(h, chave) ==
    /\ chave.t = "str"
    /\ ColunaIe(h) = IndiceDe(nome_para_indice, chave.s)
    /\ \A k \in 1..Len(linhas) : ~EhLinhaFimDados(linhas[k][chave.s])

\* C32 as stated: exactly one identifier column is used throughout, for every
\* header row, also one in which more than one cell matches the identifier
\* names: the column whose value is tested for the terminator while the rows
\* are read is the column whose value is zero-padded in the extracted rows
\* and that supplies the identifier of the items.
CE_C32 ==
    extracao = "ok" =>
        MesmaColuna(CabecalhoEscolhido, ObterChaveIe(nome_para_indice))

\* the part of C32 that the code keeps: header rows with one matching cell
UmaColunaComUmNome ==
    extracao = "ok" =>
        LET Guarda(h) ==
                Cardinality(CelulasDeIdentificador(h)) = 1 =>
                    MesmaColuna(h, ObterChaveIe(nome_para_indice))
        IN  Guarda(CabecalhoEscolhido)

(***************************************************************************)
(* Properties of the search for the reference period                       *)
(***************************************************************************)
\* position a comes before position b, row by row and left to right
AntesDe(a, b) ==
    a[1] < b[1] \/ (a[1] = b[1] /\ a[2] < b[2])

\* the positions of the title area (rows 1..12, columns 1..30) of sheet ws
\* whose cell parses to a period
ParseaveisDaArea(ws) ==
    { p \in (1..MAX_LINHAS_BUSCA_PERIODO) \X (1..MAX_COLUNAS_BUSCA_PERIODO) :
        /\ p[1] <= Len(ws)
        /\ p[2] <= Len(ws[p[1]])
        /\ ws[p[1]][p[2]] # NULO
        /\ ParsearCelulaPeriodo(ws[p[1]][p[2]]) # SEM_PERIODO }

\* the period is that of the first position of `boas`
PeriodoDaPrimeira(ws, boas) ==
    \E p \in boas :
       /\ \A q \in boas : q = p \/ AntesDe(p, q)
       /\ periodo = ParsearCelulaPeriodo(ws[p[1]][p[2]])

\* C33: the reference period returned by extraction is that of the first
\* parseable cell in row-major order (row 1 left to right, then row 2, ...)
\* within rows 1..12 and columns 1..30; a parseable cell later in that
\* order, or outside that region, never overrides an earlier one.
T_C33 ==
    /\ extracao = "ok" =>
          LET Primeira(boas) == boas # {} /\ PeriodoDaPrimeira(planilha, boas)
          IN  Primeira(ParseaveisDaArea(planilha))
    /\ (extracao = "ok" /\ Len(planilha[1]) > MAX_COLUNAS_BUSCA_PERIODO) =>
          /\ (planilha[1][MAX_COLUNAS_BUSCA_PERIODO] = PERIODO_B
                /\ planilha[2][1] = PERIODO_A) => periodo = Par(2, 2027)
          /\ (planilha[1][MAX_COLUNAS_BUSCA_PERIODO + 1] = PERIODO_B
                /\ planilha[2][1] = PERIODO_A) => periodo = Par(1, 2026)
          /\ (planilha[MAX_LINHAS_BUSCA_PERIODO][2] = PERIODO_A
                /\ planilha[MAX_LINHAS_BUSCA_PERIODO + 1][1] = PERIODO_B) =>
                   periodo = Par(1, 2026)

\* C33 witness: PERIODO_B in the last column of row 1 and PERIODO_A in the
\* first cell of row 2: the period is that of row 1
W_C33 ==
    /\ extracao = "ok"
    /\ Len(planilha[1]) > MAX_COLUNAS_BUSCA_PERIODO
    /\ planilha[1][MAX_COLUNAS_BUSCA_PERIODO] = PERIODO_B
    /\ planilha[2][1] = PERIODO_A
    /\ periodo = Par(2, 2027)
    /\ resultado # NULO

(***************************************************************************)
(* Properties of the search for the header row                             *)
(***************************************************************************)
\* a cell of the row is a text that names the identifier
TemNomeDeIdentificador(linha) ==
    \E k \in 1..Len(linha) :
        linha[k].t = "str" /\ Dobrado(linha[k].s) \in FORMAS_IE

\* the rows of the sheet ws, among the first MAX_LINHAS_BUSCA_CABECALHO, that
\* hold an identifier name
LinhasComNome(ws) ==
    { i \in 1..Len(ws) :
        i <= MAX_LINHAS_BUSCA_CABECALHO /\ TemNomeDeIdentificador(ws[i]) }

\* the mapping and the rows are those of the header row i of the sheet ws
LidaDaLinha(ws, i) ==
    /\ Len(nome_para_indice) <= Len(ws[i])
    /\ \A c \in 1..Len(ws[i]) :
          ws[i][c].t = "str" =>
             \E k \in 1..Len(nome_para_indice) :
                /\ nome_para_indice[k].indice = c - 1
                /\ nome_para_indice[k].nome = Strip(ws[i][c].s)
    /\ Len(linhas) <= Len(ws) - i
    /\ (\A r \in (i + 1)..Len(ws) : \A c \in 1..Len(ws[r]) : ~Terminadora(ws[r][c]))
          => Len(linhas) = Len(ws) - i

\* C34: the header row chosen by extraction is the first row among rows
\* 1..25 that holds a cell matching the identifier names; when no row among
\* the first 25 holds one, even when a later row does, extraction fails with
\* an error and returns no rows.
T_C34 ==
    LET Escolha(com) ==
            IF com = {}
            THEN /\ extracao \in {"nenhuma", "ValueError"}
                 /\ linhas = <<>>
                 /\ nome_para_indice = <<>>
                 /\ resultado = NULO
            ELSE extracao = "ok" =>
                    \E i \in com : /\ \A k \in com : i <= k
                                   /\ LidaDaLinha(planilha, i)
    IN  (planilha \in PlanilhasDeBusca) => Escolha(LinhasComNome(planilha))

\* C34 witness: the header in row 25 was taken although a second header row
\* follows it
W_C34 ==
    /\ extracao = "ok"
    /\ Len(planilha) > MAX_LINHAS_BUSCA_CABECALHO + 1
    /\ planilha[MAX_LINHAS_BUSCA_CABECALHO] = CABECALHO_PRIMEIRO
    /\ planilha[MAX_LINHAS_BUSCA_CABECALHO + 1] = CABECALHO_SEGUNDO
    /\ Len(nome_para_indice) = 3
    /\ Len(linhas) = 2
    /\ resultado # NULO

\* C34 witness of the failure: the only header row is row 26
W_C34_Falha ==
    /\ extracao = "ValueError"
    /\ Len(planilha) > MAX_LINHAS_BUSCA_CABECALHO
    /\ planilha[MAX_LINHAS_BUSCA_CABECALHO + 1] = CABECALHO_PRIMEIRO
    /\ LinhasComNome(planilha) = {}
    /\ linhas = <<>>

(***************************************************************************)
(* Properties of the range of the reference period                         *)
(***************************************************************************)
\* a (month, year) pair with the month in 1..12 and the year in 1995..2030
ParValido(mes_ref, ano_ref) ==
    /\ mes_ref.t = "num"
    /\ ano_ref.t = "num"
    /\ mes_ref.v \in 1..12
    /\ ano_ref.v \in ANO_MINIMO..ANO_MAXIMO

\* what _parsear_celula_periodo returns for the cell is (None, None) or a
\* valid pair
RetornoValido(par) ==
    par = SEM_PERIODO \/ ParValido(par.mes_ref, par.ano_ref)

\* C35: whenever _parsear_celula_periodo returns a month/year pair, for a
\* cell value of any accepted type (date, number, string), the month is in
\* 1..12 and the year in 1995..2030; hence every item built from a
\* successfully extracted sheet has mes_ref in 1..12 and ano_ref in
\* 1995..2030.
T_C35 ==
    /\ \A r \in 1..Len(planilha) : \A c \in 1..Len(planilha[r]) :
          RetornoValido(ParsearCelulaPeriodo(planilha[r][c]))
    /\ extracao = "ok" => ParValido(periodo.mes_ref, periodo.ano_ref)
    /\ resultado.t = "list" =>
          \A k \in 1..Len(resultado.itens) :
             ParValido(resultado.itens[k].mes_ref, resultado.itens[k].ano_ref)

\* C35 witness: an item was built with the last month of the first year of
\* the range, read from a date cell
W_C35 ==
    /\ extracao = "ok"
    /\ \E r \in 1..Len(planilha) : \E c \in 1..Len(planilha[r]) :
          planilha[r][c] = Data(ANO_MINIMO, 12, 31)
    /\ resultado.t = "list"
    /\ Len(resultado.itens) = 1
    /\ resultado.itens[1].mes_ref = Num(12)
    /\ resultado.itens[1].ano_ref = Num(ANO_MINIMO)

(***************************************************************************)
(* Properties of a TOTAL cell that is not a number                         *)
(***************************************************************************)
\* texts of the TOTAL column that float() rejects after "," became "."
TEXTOS_SEM_NUMERO ==
    { Str(<<"1", ".", "2", "7", "7", ",", "3", "9">>), Str(<<"a", "b", "c">>),
      Str(<<"R", "$", " ", "1", "0">>) }

\* the data rows whose TOTAL cell is such a text
LinhasSemNumero ==
    { k \in 1..3 : TotalDaLinha(k) \in TEXTOS_SEM_NUMERO }

\* C36: a TOTAL cell that is not a number after "," became "." (a text, or
\* an amount with a thousands separator such as "1.277,39") makes neither
\* the extraction nor obter_dados_para_dae fail; the item of the row is built
\* with valor_normal None, and executar_fluxo_por_ie runs no page step for it
\* and enters it neither in ies_sucesso nor in ies_erro.
T_C36 ==
    LinhasSemNumero # {} =>
        /\ extracao \in {"nenhuma", "ok"}
        /\ resultado # NULO =>
              /\ resultado.t = "list"
              /\ Len(resultado.itens) = 3
              /\ \A k \in 1..3 :
                    /\ resultado.itens[k].ie = IDS_DO_LOTE[k]
                    /\ k \in LinhasSemNumero =>
                          resultado.itens[k].valor_normal = NULO
        /\ \A k \in LinhasSemNumero :
              /\ IDS_DO_LOTE[k] \notin IdsSucesso \cup IdsErro
              /\ LoteInteiro =>
                    /\ lancamentos[k] = 0
                    /\ pc \in {"recarga", "passo1", "passo2", "passo3", "passo4",
                               "solver"} => indice # k

\* C36 witness: the batch of the whole list of the sheet with the TOTAL
\* cells "1.277,39", 1000 and "abc" returned; only the second identifier was
\* handled
W_C36 ==
    /\ LinhasSemNumero = {1, 3}
    /\ LoteInteiro
    /\ Len(lista_dados) = 3
    /\ lista_dados[1].valor_normal = NULO
    /\ lista_dados[3].valor_normal = NULO
    /\ pc = "retornou"
    /\ ies_sucesso = <<IDS_DO_LOTE[2]>>
    /\ ies_erro = <<>>
    /\ lancamentos = <<0, 1, 0>>

(***************************************************************************)
(* Properties of the place of the reference period                         *)
(***************************************************************************)
\* the first position of the set, row by row and left to right
PrimeiraPosicao(boas) ==
    CHOOSE p \in boas : \A q \in boas : q = p \/ AntesDe(p, q)

\* the cell that supplies the period lies above the header row
PeriodoAcimaDoCabecalho(boas, linha_cabecalho) ==
    boas # {} /\ PrimeiraPosicao(boas)[1] < linha_cabecalho

\* C37: the cell that supplies mes_ref and ano_ref of a successful
\* extraction always lies in a row above the header row; a value of the
\* header row or of a data row (such as an amount in the range of the date
\* serials) is never used as the period.
CE_C37 ==
    extracao = "ok" =>
        PeriodoAcimaDoCabecalho(ParseaveisDaArea(planilha),
                                EncontrarLinhaCabecalho(planilha))

\* with no period in the title, the extraction succeeds only on the amount
\* 45000 of the data row, read as the date serial of 15/03/2023
PeriodoDaQuantia ==
    (planilha \in PlanilhasDeTitulo /\ planilha[1][2] = NULO
        /\ extracao = "ok") =>
            /\ planilha[3][3] = Num(45000)
            /\ periodo = Par(3, 2023)

\* such an extraction was made and its items carry the period 03/2023
PeriodoDaQuantiaNosItens ==
    /\ planilha \in PlanilhasDeTitulo
    /\ planilha[1][2] = NULO
    /\ extracao = "ok"
    /\ resultado.t = "list"
    /\ Len(resultado.itens) = 1
    /\ resultado.itens[1].mes_ref = Num(3)
    /\ resultado.itens[1].ano_ref = Num(2023)

(***************************************************************************)
(* Properties of the page on which an item starts                          *)
(***************************************************************************)
\* the log ends with a load of the entry page: goto and the wait for idle
\* network, with no page action after them
PaginaRecemCarregada ==
    /\ Len(log) >= 2
    /\ log[Len(log) - 1] = "goto"
    /\ log[Len(log)] = "wait_idle"

\* page actions of the steps of an item: everything but the load of the
\* entry page and the delay before it
AcaoDeItem(acao) ==
    acao \notin {"goto", "wait_idle", "sleep"}

\* the last goto of the log before position k
UltimoGoto(k) ==
    CHOOSE g \in 0..(k - 1) :
        /\ g = 0 \/ log[g] = "goto"
        /\ \A j \in (g + 1)..(k - 1) : log[j] # "goto"

\* C38: the step that enters the identifier always runs on a freshly loaded
\* entry page: between the last goto of the entry URL, followed by its wait
\* for idle network, and the filling of the identifier field there is no
\* page action of an earlier item, in whatever way that item ended.
T_C38 ==
    /\ pc = "passo1" => PaginaRecemCarregada /\ formulario = FormularioVazio
    /\ \A k \in 1..Len(log) :
          log[k] = "wait_campo_ie" =>
              LET g == UltimoGoto(k)
              IN  /\ g > 0
                  /\ k = g + 2
                  /\ log[g + 1] = "wait_idle"
                  /\ \A j \in (g + 1)..(k - 1) : ~AcaoDeItem(log[j])

\* C38 witness: the second processed item is about to enter its identifier
\* after the first one failed with its form filled
W_C38 ==
    /\ pc = "passo1"
    /\ indice > 1
    /\ Len(ies_erro) = 1
    /\ Ocorrencias(log, "fill_mes_ref") = 1
    /\ Ocorrencias(log, "goto") = 2
    /\ PaginaRecemCarregada

(***************************************************************************)
(* Properties of the end of a batch in the window                          *)
(***************************************************************************)
\* the running flag is cleared and the buttons are enabled again
Liberada ==
    ~gui.em_execucao /\ gui.botoes = "normal"

\* C39: after a batch was started in the window (flag _em_execucao set,
\* buttons disabled) the flag is eventually cleared and the buttons are
\* enabled again once the background batch ends, in every way it can end,
\* an exception raised by executar_fluxo_por_ie in the thread included.
CE_C39 ==
    gui.em_execucao ~> Liberada

\* the thread of the batch is gone, no call of _finalizar_execucao is
\* queued, and the window still shows a running batch
LoteSemFim ==
    /\ gui.em_execucao
    /\ gui.botoes = "disabled"
    /\ gui.threads = 0
    /\ gui.pendentes = 0
    /\ pc = "ocioso"

\* nothing the program or the user does leaves that state
SemSaida ==
    [][LoteSemFim => LoteSemFim']_vars

\* the state is reached only by a thread that ended on an exception
SoPorExcecao ==
    [][(~LoteSemFim /\ LoteSemFim') => pc = "propagou"]_vars

\* a batch that returns does release the window
RetornoLibera ==
    (gui.em_execucao /\ pc = "retornou") ~> Liberada

(***************************************************************************)
(* Properties of the number of batches of the window                       *)
(***************************************************************************)
\* at most one background thread, and with it one orchestrator run, lives;
\* it lives only while the flag is set
UmLotePorVez ==
    /\ gui.threads <= 1
    /\ gui.threads = 1 => gui.em_execucao
    /\ pc # "ocioso" => gui.threads = 1
    /\ ~gui.em_execucao => gui.threads = 0 /\ gui.pendentes = 0
    /\ Cardinality(iniciados \ fechados) > 0 => gui.threads = 1

\* a step made while the flag is set starts no thread and puts no
\* orchestrator run at its beginning
NadaIniciado ==
    gui.em_execucao =>
        /\ gui'.threads <= gui.threads
        /\ pc' = "iniciar" => UNCHANGED varsFluxo

\* C40: in the window at most one background batch (one orchestrator run,
\* one browser session) is active at any time, for every sequence of clicks
\* on "executar todas", confirmations of one or several open selection
\* windows and ends of batches; a start request that arrives while a batch
\* is running starts nothing.
T_C40 ==
    /\ []UmLotePorVez
    /\ [][NadaIniciado]_vars

\* C40 witness: with a batch running, started from one selection window, the
\* confirmation of a second window was refused and the batch went on
W_C40 ==
    /\ gui.recusada
    /\ gui.em_execucao
    /\ gui.threads = 1
    /\ gui.janelas = 0
    /\ pc = "passo1"
    /\ Len(lista_dados) = 1

====
